---------------------------- MODULE Spec2Model ----------------------------
(***************************************************************************)
(* A model of the NetSuite -> Billabex connector: the sync queue and its   *)
(* scheduled processor (process_sync_queue.js, sync.js), the resilient API *)
(* client (billabex-api.js) and the entity synchronizers (sync.js).        *)
(*                                                                         *)
(* Several specifications share the module.  Spec is the queue: enqueueSync,*)
(* enqueueDelete and one run of the queue processor at a time, against     *)
(* queue storage that honours every write; LiveSpec adds the scheduling of *)
(* the processor and RaceSpec runs enqueueSync in two invocations at once. *)
(* ClientSpec is one API client and its requests.  SyncSpec is the entity  *)
(* synchronizers against the remote platform and PaySpec the payment-effect*)
(* sync.  TriggerSpec is the user-event scripts and the full-sync map      *)
(* stage.  DiffSpec is the change detection of invoices and credit notes,  *)
(* FullSpec one call of syncFullAccount, AllocSpec one call of             *)
(* syncCreditAllocations and RetryLiveSpec a credit memo whose invoices are*)
(* synchronized after it.  ConnSpec is the Connection record under two     *)
(* script invocations, and DeleteSpec the queueing and draining of deletes *)
(* of every record type.  RecSpec is one call of                           *)
(* syncCustomerEmailContacts, StorageSpec the queue processor against      *)
(* storage whose writes can raise, OverlapSpec two runs of the processor   *)
(* at once, RefreshSpec the token refresh on one connection and DocSpec    *)
(* one document through syncInvoice or syncCreditMemo with single steps    *)
(* failing.  Each leaves the variables of the others alone.                *)
(***************************************************************************)
EXTENDS Integers, Sequences, FiniteSets, TLC

VARIABLES
    \* ---- the sync queue (customrecord_bbx_sync_queue) and one drain run
    queue,      \* internal id -> [rtype, rid, action, status, retry, err]
    nextId,     \* the internal id the next created queue record gets
    dpc,        \* where the queue processor is: "idle", "loop", "dispatch"
    entries,    \* the rows the running processor read when it started
    idx,        \* index in entries of the row the loop is at
    usage,      \* remaining governance units of the running script
    fails,      \* history: failed dispatches of each queue record so far
    lastAct,    \* history: the last operation on the queue
    twice       \* history: the last two operations were enqueueSync calls for one
                \* (recordType, recordId) with different actions, the processor idle

qvars == <<queue, nextId, dpc, entries, idx, usage, fails, lastAct, twice>>

VARIABLES
    \* ---- one API client (BillabexApiClient) and the request it is running
    clock,      \* the time, in seconds
    stored,     \* the Connection record in storage: access token and its expiry
    cached,     \* the client's #connection, as last loaded
    rpc,        \* "idle", "send" (an HTTP call is about to be answered), "done"
    attempt,    \* #request's attempt counter
    isRetry,    \* #request's _isRetryAfter401
    passTok,    \* the token in the Authorization header of this #request call
    outcome,    \* what the request returned or raised
    resp,       \* the last HTTP response
    hist        \* history of the running request

cvars == <<clock, stored, cached, rpc, attempt, isRetry, passTok, outcome, resp, hist>>

VARIABLES
    \* ---- the records of the account and the objects of the remote platform
    cust,       \* the customer record: custentity_bbx_id
    con,        \* the contact record of that customer: custentity_bbx_contact_id
    inv,        \* the invoice record of that customer
    cm,         \* the credit memo record of that customer
    remote,     \* the remote platform: object id -> object, or Absent
    nextRemote, \* the id the remote platform gives to the next object it creates
    clean,      \* per kind: its last run succeeded and since then the entity, the
                \* customer's stored identifier and the remote platform are unchanged
    run         \* history of the synchronizer run that was the last step

svars == <<cust, con, inv, cm, remote, nextRemote, clean, run>>

VARIABLES
    \* ---- script invocations that run beside each other
    enq         \* invocation -> the enqueueSync call it is in

xvars == <<enq>>

VARIABLES
    \* ---- the user-event scripts and the map stage of the full sync
    trig,       \* history of the trigger run that was the last step
    truns       \* the number of trigger runs so far

tvars == <<trig, truns>>

VARIABLES
    \* ---- the parts checked on their own
    cls,        \* history of the change detection that was the last step
    full,       \* history of the call of syncFullAccount that was the last step
    alloc,      \* a credit memo, its invoices' identifiers and the last call on them
    cx,         \* the Connection records of one name and the objects the scripts hold
    emc,        \* history of the email-contact reconciliation that was the last step
    drain2,     \* a second invocation of the queue processor: its position, rows and index
    rtok,       \* the connection record's token fields and the refresh run on it
    docs        \* a document's stored identifier and the remote objects created for it

evars == <<cls, full, alloc, cx, emc, drain2, rtok, docs>>

-----------------------------------------------------------------------------
(* Bounds of the model *)

\* queue records ever created in one behaviour
MaxQueueId == 2

\* failed dispatches in one behaviour
MaxFailures == 5

\* the time horizon of the client's behaviours, in seconds
MaxClock == 240

\* access tokens issued in one behaviour
MaxTokens == 2

\* objects the remote platform creates in one behaviour
MaxRemoteId == 4

\* trigger runs (user events and map calls) in one behaviour
MaxTriggerRuns == 2

\* the days of the month that the dates of documents take
MaxDay == 2

\* the rows a query of syncFullAccount returns, and the applied lines of a
\* credit memo
MaxItems == 2

\* calls of syncCreditAllocations on one credit memo
MaxAllocRuns == 2

\* remote objects created for one document
MaxDocObjects == 3

\* runs of the token refresh on one connection
MaxRefreshRuns == 3

(* Program constants *)

MAX_RETRIES == 5

\* execute stops when the remaining usage is below this
GovernanceFloor == 500

\* the stored error text is cut to this many characters
ErrLimit == 4000

\* isAccessTokenValid's default safety margin, in minutes
MarginMinutes == 5

\* #request's default maxRetries
MaxRetries429 == 3

\* the wait, in seconds, when a 429 carries no usable Retry-After
DefaultRetryAfter == 60

-----------------------------------------------------------------------------
(* Inputs *)

\* NetSuite internal ids and Billabex identifiers are different strings
NsIds == {"n1"}
BbxIds == {"b1"}

\* the record types and actions the user-event scripts and the full sync enqueue
SyncKinds == {"customer", "invoice"}
SyncActions == {"update", "sync"}
DeleteKinds == {"contact"}

\* governance a run starts with, and what handling one entry uses up
UsageStart == {500, 1100}
DispatchCosts == {600}

\* an error a sync function raises: its name and the length of name + ": " + message
Errors == {[name |-> "ApiError", len |-> 40], [name |-> "Error", len |-> 4100]}

NoAct == [op |-> "none"]
NoErr == [name |-> "", len |-> 0]

Min(a, b) == IF a < b THEN a ELSE b

\* the remaining usage after c units are used (it does not go below zero)
Spend(u, c) == IF c <= u THEN u - c ELSE 0

-----------------------------------------------------------------------------
(* The queue *)

QueueIds == DOMAIN queue

\* JSON.stringify({ accountId, contactId }) and JSON.parse of it
ContactJson(accountId, contactId) == <<"json", accountId, contactId>>

\* enqueueSync's SELECT: the records of this type and id in status pending or failed
ExistingFor(rtype, rid) ==
    {q \in QueueIds : /\ queue[q].rtype = rtype
                      /\ queue[q].rid = rid
                      /\ queue[q].status \in {"pending", "failed"}}

\* the query returns rows in no stated order; existing[0] is one of them
NewEntry(rtype, rid, action) ==
    [rtype |-> rtype, rid |-> rid, action |-> action,
     status |-> "pending", retry |-> 0, err |-> NoErr]

EnqueueSync(rtype, rid, action) ==
    /\ \/ /\ ExistingFor(rtype, rid) # {}
          /\ \E q \in ExistingFor(rtype, rid) :
                queue' = [queue EXCEPT ![q].action = action, ![q].status = "pending"]
          /\ UNCHANGED nextId
       \/ /\ ExistingFor(rtype, rid) = {}
          /\ nextId <= MaxQueueId
          /\ queue' = [q \in QueueIds \cup {nextId} |->
                         IF q = nextId THEN NewEntry(rtype, rid, action) ELSE queue[q]]
          /\ nextId' = nextId + 1
    /\ lastAct' = [op |-> "enqueueSync", rtype |-> rtype, rid |-> rid, action |-> action]
    /\ twice' = /\ lastAct.op = "enqueueSync"
                /\ lastAct.rtype = rtype
                /\ lastAct.rid = rid
                /\ lastAct.action # action
                /\ dpc = "idle"
    /\ UNCHANGED <<dpc, entries, idx, usage, fails>>

\* a record id with the two identifiers of a contact the other way round
DeleteRecordId_Swapped(rtype, bbxId, bbxAccountId) ==
    IF rtype = "contact" THEN ContactJson(bbxId, bbxAccountId) ELSE bbxId

\* recordIdValue of enqueueDelete
DeleteRecordId(rtype, bbxId, bbxAccountId) ==
    IF rtype = "contact" THEN ContactJson(bbxAccountId, bbxId) ELSE bbxId

EnqueueDelete(rtype, bbxId, bbxAccountId) ==
    /\ nextId <= MaxQueueId
    /\ queue' = [q \in QueueIds \cup {nextId} |->
                   IF q = nextId
                   THEN NewEntry(rtype, DeleteRecordId(rtype, bbxId, bbxAccountId), "delete")
                   ELSE queue[q]]
    /\ nextId' = nextId + 1
    /\ lastAct' = [op |-> "enqueueDelete", rtype |-> rtype,
                   rid |-> DeleteRecordId(rtype, bbxId, bbxAccountId), action |-> "delete"]
    /\ twice' = FALSE
    /\ UNCHANGED <<dpc, entries, idx, usage, fails>>

-----------------------------------------------------------------------------
(* The queue processor: process_sync_queue.js *)

\* the WHERE clause of execute's query
Selected(q) ==
    /\ queue[q].status \in {"pending", "failed"}
    /\ queue[q].retry < MAX_RETRIES

RECURSIVE SortedIds(_)
\* ORDER BY q.id ASC
SortedIds(S) ==
    IF S = {} THEN <<>>
    ELSE LET m == CHOOSE x \in S : \A y \in S : x <= y
         IN  <<m>> \o SortedIds(S \ {m})

Row(q) ==
    [id |-> q, rtype |-> queue[q].rtype, rid |-> queue[q].rid,
     action |-> queue[q].action, retry |-> queue[q].retry]

SelectEntries ==
    LET ids == SortedIds({q \in QueueIds : Selected(q)})
    IN  [i \in 1..Len(ids) |-> Row(ids[i])]

\* dispatch: the sync function called for a record type and action, or "throw"
Dispatch(rtype, rid, action) ==
    IF action = "delete"
    THEN CASE rtype = "customer"   -> [fn |-> "deleteAccount", arg |-> rid]
           [] rtype = "contact"    -> [fn |-> "deleteContact", arg |-> <<rid[2], rid[3]>>]
           [] rtype = "invoice"    -> [fn |-> "deleteInvoice", arg |-> rid]
           [] rtype = "creditmemo" -> [fn |-> "deleteCreditMemo", arg |-> rid]
           [] OTHER                -> [fn |-> "throw", arg |-> rid]
    ELSE CASE rtype = "customer"   -> IF action = "sync"
                                      THEN [fn |-> "syncFullAccount", arg |-> rid]
                                      ELSE [fn |-> "syncAccount", arg |-> rid]
           [] rtype = "contact"    -> [fn |-> "syncContact", arg |-> rid]
           [] rtype = "invoice"    -> [fn |-> "syncInvoice", arg |-> rid]
           [] rtype = "creditmemo" -> [fn |-> "syncCreditMemo+syncCreditAllocations", arg |-> rid]
           [] rtype = "customerpayment" -> [fn |-> "syncPayment", arg |-> rid]
           [] OTHER                -> [fn |-> "throw", arg |-> rid]

Cur == entries[idx]

\* execute up to the loop: read the rows; nothing to do when there are none
DrainStart ==
    /\ dpc = "idle"
    /\ SelectEntries # <<>>
    /\ entries' = SelectEntries
    /\ idx' = 1
    /\ \E u \in UsageStart : usage' = u
    /\ dpc' = "loop"
    /\ lastAct' = [op |-> "drainStart"]
    /\ twice' = FALSE
    /\ UNCHANGED <<queue, nextId, fails>>

\* a governance check that also runs while an entry is being dispatched
DrainStop_MidEntry ==
    /\ \/ dpc = "loop" /\ idx <= Len(entries) /\ usage < GovernanceFloor
       \/ dpc = "dispatch" /\ \E c \in DispatchCosts : Spend(usage, c) < GovernanceFloor
    /\ dpc' = "idle"
    /\ entries' = <<>>
    /\ idx' = 1
    /\ lastAct' = [op |-> "drainStop", started |-> idx - 1, left |-> Len(entries) - idx + 1]
    /\ twice' = FALSE
    /\ UNCHANGED <<queue, nextId, usage, fails>>

\* the governance check at the head of the loop: break
DrainStop ==
    /\ dpc = "loop"
    /\ idx <= Len(entries)
    /\ usage < GovernanceFloor
    /\ dpc' = "idle"
    /\ entries' = <<>>
    /\ idx' = 1
    /\ lastAct' = [op |-> "drainStop", started |-> idx - 1, left |-> Len(entries) - idx + 1]
    /\ twice' = FALSE
    /\ UNCHANGED <<queue, nextId, usage, fails>>

\* the loop ran out of rows
DrainFinish ==
    /\ dpc = "loop"
    /\ idx > Len(entries)
    /\ dpc' = "idle"
    /\ entries' = <<>>
    /\ idx' = 1
    /\ lastAct' = [op |-> "drainFinish"]
    /\ twice' = FALSE
    /\ UNCHANGED <<queue, nextId, usage, fails>>

\* DrainMark without the governance check before it
DrainMark_NoBudgetCheck ==
    /\ dpc = "loop"
    /\ idx <= Len(entries)
    /\ Cur.id \in QueueIds
    /\ queue' = [queue EXCEPT ![Cur.id].status = "processing"]
    /\ dpc' = "dispatch"
    /\ lastAct' = [op |-> "mark", id |-> Cur.id]
    /\ twice' = FALSE
    /\ UNCHANGED <<nextId, entries, idx, usage, fails>>

\* submitFields({ status: 'processing' }) on the row's record
DrainMark ==
    /\ dpc = "loop"
    /\ idx <= Len(entries)
    /\ usage >= GovernanceFloor
    /\ Cur.id \in QueueIds
    /\ queue' = [queue EXCEPT ![Cur.id].status = "processing"]
    /\ dpc' = "dispatch"
    /\ lastAct' = [op |-> "mark", id |-> Cur.id]
    /\ twice' = FALSE
    /\ UNCHANGED <<nextId, entries, idx, usage, fails>>

\* FailedStatus with > for >=
FailedStatus_Above(newRetryCount) ==
    IF newRetryCount > MAX_RETRIES THEN "failed" ELSE "pending"

\* the status and retry count written after a failed dispatch
FailedStatus(newRetryCount) ==
    IF newRetryCount >= MAX_RETRIES THEN "failed" ELSE "pending"

\* NewRetryCount that writes the count back as it was read
NewRetryCount_Same(retryCount) == retryCount

NewRetryCount(retryCount) == retryCount + 1

\* `${e.name}: ${e.message}`.substring(0, 4000)
StoredError(e) == [name |-> e.name, len |-> Min(e.len, ErrLimit)]

\* dispatch returned: record.delete of the queue record
DrainDispatchOk ==
    /\ dpc = "dispatch"
    /\ Dispatch(Cur.rtype, Cur.rid, Cur.action).fn # "throw"
    /\ queue' = [q \in QueueIds \ {Cur.id} |-> queue[q]]
    /\ \E c \in DispatchCosts : usage' = Spend(usage, c)
    /\ idx' = idx + 1
    /\ dpc' = "loop"
    /\ lastAct' = [op |-> "dispatchOk", id |-> Cur.id,
                   call |-> Dispatch(Cur.rtype, Cur.rid, Cur.action)]
    /\ twice' = FALSE
    /\ UNCHANGED <<nextId, entries, fails>>

RECURSIVE SumTo(_, _)
SumTo(f, n) == IF n = 0 THEN 0 ELSE f[n] + SumTo(f, n - 1)

TotalFails == SumTo(fails, MaxQueueId)

\* a failed dispatch that ends the run after its writes
DrainDispatchFail_Abort ==
    /\ dpc = "dispatch"
    /\ TotalFails < MaxFailures
    /\ \E e \in Errors :
         /\ queue' = [queue EXCEPT ![Cur.id].status = FailedStatus(NewRetryCount(Cur.retry)),
                                   ![Cur.id].retry = NewRetryCount(Cur.retry),
                                   ![Cur.id].err = StoredError(e)]
         /\ lastAct' = [op |-> "dispatchFail", id |-> Cur.id,
                        call |-> Dispatch(Cur.rtype, Cur.rid, Cur.action), raised |-> e]
    /\ \E c \in DispatchCosts : usage' = Spend(usage, c)
    /\ fails' = [fails EXCEPT ![Cur.id] = @ + 1]
    /\ idx' = 1
    /\ entries' = <<>>
    /\ dpc' = "idle"
    /\ twice' = FALSE
    /\ UNCHANGED <<nextId>>

\* dispatch raised e: the catch block writes status, retry count and error
DrainDispatchFail ==
    /\ dpc = "dispatch"
    /\ TotalFails < MaxFailures
    /\ \E e \in Errors :
         /\ queue' = [queue EXCEPT ![Cur.id].status = FailedStatus(NewRetryCount(Cur.retry)),
                                   ![Cur.id].retry = NewRetryCount(Cur.retry),
                                   ![Cur.id].err = StoredError(e)]
         /\ lastAct' = [op |-> "dispatchFail", id |-> Cur.id,
                        call |-> Dispatch(Cur.rtype, Cur.rid, Cur.action), raised |-> e]
    /\ \E c \in DispatchCosts : usage' = Spend(usage, c)
    /\ fails' = [fails EXCEPT ![Cur.id] = @ + 1]
    /\ idx' = idx + 1
    /\ dpc' = "loop"
    /\ twice' = FALSE
    /\ UNCHANGED <<nextId, entries>>

QueueInit ==
    /\ queue = <<>>
    /\ nextId = 1
    /\ dpc = "idle"
    /\ entries = <<>>
    /\ idx = 1
    /\ usage = 0
    /\ fails = [q \in 1..MaxQueueId |-> 0]
    /\ lastAct = NoAct
    /\ twice = FALSE

\* a step of the queue: nothing else moves
QueueNext ==
    \/ UNCHANGED <<cvars, svars, xvars, tvars, evars>> /\ \E k \in SyncKinds, r \in NsIds, a \in SyncActions :
                              EnqueueSync(k, r, a)
    \/ UNCHANGED <<cvars, svars, xvars, tvars, evars>> /\ \E k \in DeleteKinds, b \in BbxIds : EnqueueDelete(k, b, "acc1")
    \/ UNCHANGED <<cvars, svars, xvars, tvars, evars>> /\ DrainStart
    \/ UNCHANGED <<cvars, svars, xvars, tvars, evars>> /\ DrainStop
    \/ UNCHANGED <<cvars, svars, xvars, tvars, evars>> /\ DrainFinish
    \/ UNCHANGED <<cvars, svars, xvars, tvars, evars>> /\ DrainMark
    \/ UNCHANGED <<cvars, svars, xvars, tvars, evars>> /\ DrainDispatchOk
    \/ UNCHANGED <<cvars, svars, xvars, tvars, evars>> /\ DrainDispatchFail

-----------------------------------------------------------------------------
(* The API client: billabex-api.js, Connection.isAccessTokenValid *)

Max(a, b) == IF a > b THEN a ELSE b

\* expiries of the token the behaviour starts with, and what a refresh grants
InitialExpiries == {300, 330, 420, 900}
TokenLifetime == {900}
TickStep == {30}

\* Retry-After headers of a 429
RetryAfterHeaders ==
    {[present |-> FALSE, value |-> 0], [present |-> TRUE, value |-> 0],
     [present |-> TRUE, value |-> 30], [present |-> TRUE, value |-> 90]}

\* error statuses other than 401 and 429, and the bodies that come with them
ErrorCodes == {400, 404, 500}
Bodies == {"empty", "invalid", "null", "message", "nomessage"}
OkCodes == {200, 204}

NoOutcome == [kind |-> "none"]
NoResp == [code |-> 0]
NoHist == [clock0 |-> 0, cachedExp0 |-> 0, storedExp0 |-> 0, calls |-> 0,
           reloads |-> 0, io401 |-> "none", reissues |-> 0, retries |-> 0,
           waited |-> 0]

\* isAccessTokenValid with a margin of no minutes
IsAccessTokenValid_NoMargin(conn, now) ==
    /\ conn.tok # 0
    /\ conn.exp > now

\* Connection.isAccessTokenValid(): expiresAt - margin > now
IsAccessTokenValid(conn, now) ==
    /\ conn.tok # 0
    /\ conn.exp - MarginMinutes * 60 > now

\* parseInt(header, 10) || 60
ParseRetryAfter(h) ==
    IF h.present /\ h.value # 0 THEN h.value ELSE DefaultRetryAfter

\* Math.max(1000, retryAfter * 1000) milliseconds, in seconds
WaitSeconds(retryAfter) == Max(1, retryAfter)

\* errorBody: JSON.parse(response.body || '{}'), null when it does not parse
ErrorBody(body) ==
    CASE body = "empty"     -> "{}"
      [] body = "invalid"   -> "null"
      [] body = "null"      -> "null"
      [] body = "message"   -> "{message}"
      [] body = "nomessage" -> "{other}"

\* ErrorMessage that never reads the body
ErrorMessage_Generic(code, body) == <<"API Error", code>>

\* errorMessage: errorBody.message || `API Error ${response.code}`
ErrorMessage(code, body) ==
    CASE body = "message"    -> <<"message of body">>
      [] body = "message404" -> <<"message of body, with 404 in it">>
      [] OTHER               -> <<"API Error", code>>

\* the checks at the top of #request: the token check, one reload, the re-check
TokenCheck(conn) ==
    IF IsAccessTokenValid(conn, clock) THEN [ok |-> TRUE, conn |-> conn, reloads |-> 0]
    ELSE [ok |-> IsAccessTokenValid(stored, clock), conn |-> stored, reloads |-> 1]

\* a caller starts client.<resource>.<method>(): #request up to its first HTTP call
RequestBegin ==
    /\ rpc \in {"idle", "done"}
    /\ LET chk == TokenCheck(cached)
       IN  /\ cached' = chk.conn
           /\ passTok' = chk.conn.tok
           /\ hist' = [NoHist EXCEPT !.clock0 = clock, !.cachedExp0 = cached.exp,
                                     !.storedExp0 = stored.exp, !.reloads = chk.reloads]
           /\ rpc' = IF chk.ok THEN "send" ELSE "done"
           /\ outcome' = IF chk.ok THEN NoOutcome
                         ELSE [kind |-> "TokenExpired", by |-> "client"]
    /\ attempt' = 0
    /\ isRetry' = FALSE
    /\ resp' = NoResp
    /\ UNCHANGED <<clock, stored>>

\* the 429 branch with the retry bound read as attempt > maxRetries
On429_OneMore(h) ==
    /\ rpc = "send"
    /\ resp' = [code |-> 429, header |-> h]
    /\ IF attempt > MaxRetries429
       THEN /\ rpc' = "done"
            /\ outcome' = [kind |-> "RateLimited", retryAfter |-> ParseRetryAfter(h)]
            /\ hist' = [hist EXCEPT !.calls = @ + 1]
            /\ UNCHANGED <<clock, attempt>>
       ELSE /\ clock + WaitSeconds(ParseRetryAfter(h)) <= MaxClock
            /\ clock' = clock + WaitSeconds(ParseRetryAfter(h))
            /\ attempt' = attempt + 1
            /\ hist' = [hist EXCEPT !.calls = @ + 1, !.retries = @ + 1,
                                    !.waited = WaitSeconds(ParseRetryAfter(h))]
            /\ UNCHANGED <<rpc, outcome>>
    /\ UNCHANGED <<stored, cached, isRetry, passTok>>

\* the 429 branch without its own throw: the retry that finds attempt above
\* maxRetries leaves the while loop and reaches the throw that follows it
On429_LoopExit(h) ==
    /\ rpc = "send"
    /\ resp' = [code |-> 429, header |-> h]
    /\ clock + WaitSeconds(ParseRetryAfter(h)) <= MaxClock
    /\ clock' = clock + WaitSeconds(ParseRetryAfter(h))
    /\ attempt' = attempt + 1
    /\ hist' = [hist EXCEPT !.calls = @ + 1, !.retries = @ + 1,
                            !.waited = WaitSeconds(ParseRetryAfter(h))]
    /\ IF attempt + 1 <= MaxRetries429
       THEN UNCHANGED <<rpc, outcome>>
       ELSE /\ rpc' = "done"
            /\ outcome' = [kind |-> "Error", message |-> "Request failed after max retries"]
    /\ UNCHANGED <<stored, cached, isRetry, passTok>>

\* the HTTP call is answered 429 with Retry-After header h
On429(h) ==
    /\ rpc = "send"
    /\ resp' = [code |-> 429, header |-> h]
    /\ IF attempt >= MaxRetries429
       THEN /\ rpc' = "done"
            /\ outcome' = [kind |-> "RateLimited", retryAfter |-> ParseRetryAfter(h)]
            /\ hist' = [hist EXCEPT !.calls = @ + 1]
            /\ UNCHANGED <<clock, attempt>>
       ELSE /\ clock + WaitSeconds(ParseRetryAfter(h)) <= MaxClock
            /\ clock' = clock + WaitSeconds(ParseRetryAfter(h))
            /\ attempt' = attempt + 1
            /\ hist' = [hist EXCEPT !.calls = @ + 1, !.retries = @ + 1,
                                    !.waited = WaitSeconds(ParseRetryAfter(h))]
            /\ UNCHANGED <<rpc, outcome>>
    /\ UNCHANGED <<stored, cached, isRetry, passTok>>

\* the 401 branch without the _isRetryAfter401 guard
On401_Always ==
    /\ rpc = "send"
    /\ resp' = [code |-> 401]
    /\ hist.calls < 12
    /\ cached' = stored
    /\ IF IsAccessTokenValid(stored, clock)
       THEN /\ passTok' = stored.tok
            /\ attempt' = 0
            /\ isRetry' = TRUE
            /\ hist' = [hist EXCEPT !.calls = @ + 1, !.reloads = @ + 1,
                                    !.io401 = "reissued", !.reissues = @ + 1]
            /\ UNCHANGED <<rpc, outcome>>
       ELSE /\ rpc' = "done"
            /\ outcome' = [kind |-> "TokenExpired", by |-> "server"]
            /\ hist' = [hist EXCEPT !.calls = @ + 1, !.reloads = @ + 1,
                                    !.io401 = "stale"]
            /\ UNCHANGED <<attempt, isRetry, passTok>>
    /\ UNCHANGED <<clock, stored>>

\* the HTTP call is answered 401
On401 ==
    /\ rpc = "send"
    /\ resp' = [code |-> 401]
    /\ IF ~isRetry
       THEN /\ cached' = stored
            /\ IF IsAccessTokenValid(stored, clock)
               THEN \* return this.#request(..., _isRetryAfter401: true): its own
                    \* token check passes on the connection just re-checked
                    /\ passTok' = stored.tok
                    /\ attempt' = 0
                    /\ isRetry' = TRUE
                    /\ hist' = [hist EXCEPT !.calls = @ + 1, !.reloads = @ + 1,
                                            !.io401 = "reissued", !.reissues = @ + 1]
                    /\ UNCHANGED <<rpc, outcome>>
               ELSE /\ rpc' = "done"
                    /\ outcome' = [kind |-> "TokenExpired", by |-> "server"]
                    /\ hist' = [hist EXCEPT !.calls = @ + 1, !.reloads = @ + 1,
                                            !.io401 = "stale"]
                    /\ UNCHANGED <<attempt, isRetry, passTok>>
       ELSE /\ rpc' = "done"
            /\ outcome' = [kind |-> "TokenExpired", by |-> "server"]
            /\ hist' = [hist EXCEPT !.calls = @ + 1, !.io401 = "second"]
            /\ UNCHANGED <<cached, attempt, isRetry, passTok>>
    /\ UNCHANGED <<clock, stored>>

\* the HTTP call is answered with another status >= 400
OnError(code, body) ==
    /\ rpc = "send"
    /\ resp' = [code |-> code, body |-> body]
    /\ rpc' = "done"
    /\ outcome' = [kind |-> "ApiError", status |-> code,
                   message |-> ErrorMessage(code, body), body |-> ErrorBody(body)]
    /\ hist' = [hist EXCEPT !.calls = @ + 1]
    /\ UNCHANGED <<clock, stored, cached, attempt, isRetry, passTok>>

\* the HTTP call is answered 2xx
OnSuccess(code) ==
    /\ rpc = "send"
    /\ resp' = [code |-> code]
    /\ rpc' = "done"
    /\ outcome' = [kind |-> "ok", data |-> IF code = 204 THEN "null" ELSE "body"]
    /\ hist' = [hist EXCEPT !.calls = @ + 1]
    /\ UNCHANGED <<clock, stored, cached, attempt, isRetry, passTok>>

\* time passes
Tick ==
    /\ \E d \in TickStep : clock + d <= MaxClock /\ clock' = clock + d
    /\ UNCHANGED <<stored, cached, rpc, attempt, isRetry, passTok, outcome, resp, hist>>

\* the scheduled refresh rotates the stored tokens (refresh_tokens.js)
Refresh ==
    /\ stored.tok < MaxTokens
    /\ \E life \in TokenLifetime :
          stored' = [tok |-> stored.tok + 1, exp |-> clock + life]
    /\ UNCHANGED <<clock, cached, rpc, attempt, isRetry, passTok, outcome, resp, hist>>

\* createClient(): the constructor loads the connection
ClientInit ==
    /\ clock = 0
    /\ \E e \in InitialExpiries : stored = [tok |-> 1, exp |-> e]
    /\ cached = stored
    /\ rpc = "idle"
    /\ attempt = 0
    /\ isRetry = FALSE
    /\ passTok = 0
    /\ outcome = NoOutcome
    /\ resp = NoResp
    /\ hist = NoHist

\* the client's variables where the client is not part of the specification
ClientIdle ==
    /\ clock = 0
    /\ stored = [tok |-> 1, exp |-> 900]
    /\ cached = stored
    /\ rpc = "idle"
    /\ attempt = 0
    /\ isRetry = FALSE
    /\ passTok = 0
    /\ outcome = NoOutcome
    /\ resp = NoResp
    /\ hist = NoHist

ClientNext ==
    \/ UNCHANGED <<qvars, svars, xvars, tvars, evars>> /\ RequestBegin
    \/ UNCHANGED <<qvars, svars, xvars, tvars, evars>> /\ \E h \in RetryAfterHeaders : On429(h)
    \/ UNCHANGED <<qvars, svars, xvars, tvars, evars>> /\ On401
    \/ UNCHANGED <<qvars, svars, xvars, tvars, evars>> /\ \E c \in ErrorCodes, b \in Bodies : OnError(c, b)
    \/ UNCHANGED <<qvars, svars, xvars, tvars, evars>> /\ \E c \in OkCodes : OnSuccess(c)
    \/ UNCHANGED <<qvars, svars, xvars, tvars, evars>> /\ Tick
    \/ UNCHANGED <<qvars, svars, xvars, tvars, evars>> /\ Refresh

-----------------------------------------------------------------------------
(* The synchronizers: syncAccount, syncContact, syncInvoice, syncCreditMemo
   of sync.js against the remote platform.  One run is one step: the scripts
   are single-threaded and the remote platform is taken not to change while a
   run is between two of its calls. *)

EntityKinds == {"account", "contact", "invoice", "creditNote"}

CallNames ==
    {"accounts.create", "accounts.update", "contacts.upsert",
     "invoices.get", "invoices.create", "invoices.delete", "invoices.updatePaidAmount",
     "creditNotes.get", "creditNotes.create", "creditNotes.delete"}

\* the values the local fields take
InvoiceTotals == {100, 120}
InvoiceRemaining == {0, 40}
CreditTotals == {50, 70}

\* which calls of a run the remote platform answers 500
Faults == {"none", "create", "access"}

RemoteIds == 1..MaxRemoteId
Absent == [kind |-> "none"]
NoCalls == [c \in CallNames |-> 0]
\* the account a create or upsert call is made under: the identifier passed,
\* and the identifier the customer record holds at that moment
NoParent == [id |-> 0, stored |-> 0]
NoRun == [kind |-> "none", second |-> FALSE, got404 |-> FALSE, ok |-> FALSE,
          oldId |-> 0, calls |-> NoCalls, had |-> 0, parent |-> NoParent,
          paidAnswer |-> 0, paidArg |-> -1, resync |-> "none"]

\* the state a run works on, with what it has called and raised so far
World ==
    [cust |-> cust, con |-> con, inv |-> inv, cm |-> cm, remote |-> remote,
     next |-> nextRemote, calls |-> NoCalls, raised |-> FALSE, got404 |-> FALSE,
     full |-> FALSE, ret |-> 0, parent |-> NoParent,
     paidAnswer |-> 0, paidArg |-> -1, resync |-> "none"]

Call(w, name) == [w EXCEPT !.calls[name] = @ + 1]
Raise(w) == [w EXCEPT !.raised = TRUE]
Live(w, id, kind) == id \in RemoteIds /\ w.remote[id].kind = kind
Under(w, acc) == [w EXCEPT !.parent = [id |-> acc, stored |-> w.cust.bbxId]]

\* the error of a call on an object the remote platform does not have
NotFound == [name |-> "ApiError", status |-> 404]
ServerError == [name |-> "ApiError", status |-> 500]

\* the orphan test that takes no error for a missing object
IsOrphanSignal_Never(e) == FALSE

\* e.name === 'ApiError' && e.status === 404
IsOrphanSignal(e) == e.name = "ApiError" /\ e.status = 404

\* a create call: the remote platform stores the object under a new id
RemoteCreate(w, name, obj, fault) ==
    LET c == Call(w, name)
    IN  IF fault = "create" THEN Raise(c)
        ELSE IF c.next > MaxRemoteId THEN [c EXCEPT !.full = TRUE, !.raised = TRUE]
        ELSE [c EXCEPT !.remote[c.next] = obj, !.next = @ + 1, !.ret = c.next]

\* what accounts.update and the get calls answer
Access(w, id, kind, fault) ==
    IF fault = "access" THEN ServerError
    ELSE IF Live(w, id, kind) THEN [name |-> "", status |-> 200]
    ELSE NotFound

\* syncAccount(customerId) on w
SyncAccountOn(w, fault) ==
    LET bbxId == w.cust.bbxId
        data == [kind |-> "account"]
        answer == Access(w, bbxId, "account", fault)
        updated == [Call(w, "accounts.update") EXCEPT !.got404 = (answer = NotFound)]
        start == IF bbxId = 0 THEN w ELSE [updated EXCEPT !.cust.bbxId = 0]
        made == RemoteCreate(start, "accounts.create", data, fault)
    IN  IF bbxId # 0 /\ answer.status = 200
        THEN [updated EXCEPT !.remote[bbxId] = data, !.ret = bbxId]
        ELSE IF bbxId # 0 /\ ~IsOrphanSignal(answer) THEN Raise(updated)
        ELSE IF made.raised THEN made
        ELSE [made EXCEPT !.cust.bbxId = made.ret]

\* the parent account's id as stored, whether the customer holds one or not
EnsureAccount_Stored(w, fault) == [w EXCEPT !.ret = w.cust.bbxId]

\* the parent account's id: the stored one, or what syncAccount returns
EnsureAccount(w, fault) ==
    IF w.cust.bbxId # 0 THEN [w EXCEPT !.ret = w.cust.bbxId]
    ELSE SyncAccountOn(w, fault)

\* the contacts of an account that contacts.upsert matches
Matching(w, acc) ==
    {i \in RemoteIds : w.remote[i] = [kind |-> "contact", acc |-> acc]}

\* syncContact(contactId) on w
SyncContactOn(w, fault) ==
    LET p == EnsureAccount(w, fault)
        acc == p.ret
        data == [kind |-> "contact", acc |-> acc]
        called == Call(Under(p, acc), "contacts.upsert")
        match == Matching(p, acc)
        made == RemoteCreate(Under(p, acc), "contacts.upsert", data, fault)
    IN  IF p.raised THEN p
        ELSE IF fault = "create" \/ ~Live(p, acc, "account") THEN Raise(called)
        ELSE IF match # {}
             THEN LET id == CHOOSE i \in match : \A j \in match : i <= j
                  IN  [called EXCEPT !.con.bbxId = id, !.ret = id]
        ELSE IF made.raised THEN made
        ELSE [made EXCEPT !.con.bbxId = made.ret]

\* a date of the remote platform is { year, month, day } or null; a date of a
\* record is a Date, which has a time of day as well, or empty
NoDate == [year |-> 0, month |-> 0, day |-> 0]
NsNoDate == [year |-> 0, month |-> 0, day |-> 0, hour |-> 0]

\* toDateValue(nsDate)
ToDateValue(nsDate) ==
    IF nsDate = NsNoDate THEN NoDate
    ELSE [year |-> nsDate.year, month |-> nsDate.month, day |-> nsDate.day]

\* a comparison of the moments: the remote date is the start of its day
DatesEqual_Timestamp(bbxDate, nsDate) ==
    IF bbxDate = NoDate /\ nsDate = NsNoDate THEN TRUE
    ELSE IF bbxDate = NoDate \/ nsDate = NsNoDate THEN FALSE
    ELSE /\ bbxDate = ToDateValue(nsDate)
         /\ nsDate.hour = 0

\* datesEqual(bbxDate, nsDate)
DatesEqual(bbxDate, nsDate) ==
    IF bbxDate = NoDate /\ nsDate = NsNoDate THEN TRUE
    ELSE IF bbxDate = NoDate \/ nsDate = NsNoDate THEN FALSE
    ELSE LET ns == ToDateValue(nsDate)
         IN  IF ns = NoDate THEN FALSE
             ELSE /\ bbxDate.year = ns.year
                  /\ bbxDate.month = ns.month
                  /\ bbxDate.day = ns.day

\* x || ''
OrEmpty(x) == IF x = "null" THEN "" ELSE x

\* invoiceHasChanged that reports every invoice changed
InvoiceHasChanged_Always(bbxInvoice, nsValues) == TRUE

\* invoiceHasChanged(bbxInvoice, nsValues)
InvoiceHasChanged(bbxInvoice, nsValues) ==
    IF bbxInvoice.number # nsValues.tranId THEN TRUE
    ELSE IF bbxInvoice.totalAmount # nsValues.total THEN TRUE
    ELSE IF bbxInvoice.taxAmount # nsValues.taxTotal THEN TRUE
    ELSE IF ~DatesEqual(bbxInvoice.issuedDate, nsValues.tranDate) THEN TRUE
    ELSE IF ~DatesEqual(bbxInvoice.dueDate, nsValues.dueDate) THEN TRUE
    ELSE IF OrEmpty(bbxInvoice.poNumber) # OrEmpty(nsValues.poNumber) THEN TRUE
    ELSE FALSE

\* creditNoteHasChanged that does not look at the tax amount
CreditNoteHasChanged_NoTax(bbxCreditNote, nsValues) ==
    IF bbxCreditNote.number # nsValues.tranId THEN TRUE
    ELSE IF bbxCreditNote.totalAmount # nsValues.total THEN TRUE
    ELSE IF ~DatesEqual(bbxCreditNote.issuedDate, nsValues.tranDate) THEN TRUE
    ELSE FALSE

\* creditNoteHasChanged(bbxCreditNote, nsValues)
CreditNoteHasChanged(bbxCreditNote, nsValues) ==
    IF bbxCreditNote.number # nsValues.tranId THEN TRUE
    ELSE IF bbxCreditNote.totalAmount # nsValues.total THEN TRUE
    ELSE IF bbxCreditNote.taxAmount # nsValues.taxTotal THEN TRUE
    ELSE IF ~DatesEqual(bbxCreditNote.issuedDate, nsValues.tranDate) THEN TRUE
    ELSE FALSE

\* in SyncSpec only the total of a document is edited: what the remote
\* platform holds of a document and what the record holds, with the number,
\* the tax amount, the dates and the reference as they were at the create
TheDay == [year |-> 2026, month |-> 1, day |-> 1]
TheDate == [year |-> 2026, month |-> 1, day |-> 1, hour |-> 0]
Snapshot(obj) ==
    [number |-> "N1", totalAmount |-> obj.total, taxAmount |-> 0,
     issuedDate |-> TheDay, dueDate |-> TheDay, poNumber |-> ""]
Values(rec) ==
    [tranId |-> "N1", total |-> rec.total, taxTotal |-> 0,
     tranDate |-> TheDate, dueDate |-> TheDate, poNumber |-> ""]

\* a create that returns the new id without writing it to the record
CreateDocument_Unstored(w, kind, name, acc, obj, fault) ==
    IF Live(w, acc, "account")
    THEN RemoteCreate(Under(w, acc), name, obj, fault)
    ELSE Raise(Call(Under(w, acc), name))

\* the create of an invoice or credit note under account acc and the write-back
\* of its id; of the object the remote platform keeps what a get is read for
CreateDocument(w, kind, name, acc, obj, fault) ==
    LET made == IF Live(w, acc, "account")
                THEN RemoteCreate(Under(w, acc), name, obj, fault)
                ELSE Raise(Call(Under(w, acc), name))
    IN  IF made.raised THEN made
        ELSE IF kind = "invoice" THEN [made EXCEPT !.inv.bbxId = made.ret]
        ELSE [made EXCEPT !.cm.bbxId = made.ret]

\* syncInvoice(invoiceId) on w
SyncInvoiceOn(w, fault) ==
    LET bbxInvoiceId == w.inv.bbxId
        p == EnsureAccount(w, fault)
        paidAmount == w.inv.total - w.inv.remaining
        data == [kind |-> "invoice", total |-> w.inv.total, paid |-> paidAmount]
        answer == Access(p, bbxInvoiceId, "invoice", fault)
        got == [Call(p, "invoices.get") EXCEPT !.got404 = (answer = NotFound)]
        existing == p.remote[bbxInvoiceId]
        cleared == [got EXCEPT !.inv.bbxId = 0]
        deleted == [Call(got, "invoices.delete") EXCEPT !.remote[bbxInvoiceId] = Absent]
        paid == [Call(got, "invoices.updatePaidAmount")
                    EXCEPT !.remote[bbxInvoiceId].paid = paidAmount, !.ret = bbxInvoiceId]
    IN  IF p.raised THEN p
        ELSE IF bbxInvoiceId = 0
             THEN CreateDocument(p, "invoice", "invoices.create", p.ret, data, fault)
        ELSE IF answer.status # 200
             THEN IF IsOrphanSignal(answer)
                  THEN CreateDocument(cleared, "invoice", "invoices.create", p.ret, data, fault)
                  ELSE Raise(got)
        ELSE IF InvoiceHasChanged(Snapshot(existing), Values(w.inv))
             THEN CreateDocument(deleted, "invoice", "invoices.create", p.ret, data, fault)
        ELSE IF existing.paid # paidAmount THEN paid
        ELSE [got EXCEPT !.ret = bbxInvoiceId]

\* syncCreditMemo(creditMemoId) on w
SyncCreditMemoOn(w, fault) ==
    LET bbxCreditNoteId == w.cm.bbxId
        p == EnsureAccount(w, fault)
        data == [kind |-> "creditNote", total |-> w.cm.total]
        answer == Access(p, bbxCreditNoteId, "creditNote", fault)
        got == [Call(p, "creditNotes.get") EXCEPT !.got404 = (answer = NotFound)]
        existing == p.remote[bbxCreditNoteId]
        cleared == [got EXCEPT !.cm.bbxId = 0]
        deleted == [Call(got, "creditNotes.delete") EXCEPT !.remote[bbxCreditNoteId] = Absent]
    IN  IF p.raised THEN p
        ELSE IF bbxCreditNoteId = 0
             THEN CreateDocument(p, "creditNote", "creditNotes.create", p.ret, data, fault)
        ELSE IF answer.status # 200
             THEN IF IsOrphanSignal(answer)
                  THEN CreateDocument(cleared, "creditNote", "creditNotes.create",
                                      p.ret, data, fault)
                  ELSE Raise(got)
        ELSE IF CreditNoteHasChanged(Snapshot(existing), Values(w.cm))
             THEN CreateDocument(deleted, "creditNote", "creditNotes.create", p.ret, data, fault)
        ELSE [got EXCEPT !.ret = bbxCreditNoteId]

\* paidAmount taken to be what is left to pay
PaidAmount_Remaining(total, amountRemaining) == amountRemaining

\* const paidAmount = total - amountRemaining
PaidAmount(total, amountRemaining) == total - amountRemaining

\* a handling of the 404 that clears the stale identifier and stops
Resync_ClearOnly(w, fault) == [w EXCEPT !.inv.bbxId = 0]

\* syncInvoice(appliedInvoiceId) in a try whose catch only logs
Resync(w, fault) ==
    LET r == SyncInvoiceOn(w, fault)
    IN  [r EXCEPT !.resync = IF r.raised THEN "failed" ELSE "ok", !.raised = FALSE]

\* syncPayment(paymentId) on w, for a payment applied to the invoice; fault is
\* for the paid-amount call, refault for the synchronization after a 404
SyncPaymentOn(w, fault, refault) ==
    LET bbxInvoiceId == w.inv.bbxId
        paidAmount == PaidAmount(w.inv.total, w.inv.remaining)
        answer == Access(w, bbxInvoiceId, "invoice", fault)
        called == [Call(w, "invoices.updatePaidAmount")
                      EXCEPT !.paidArg = paidAmount, !.paidAnswer = answer.status]
    IN  IF bbxInvoiceId = 0 THEN w
        ELSE IF answer.status = 200
             THEN [called EXCEPT !.remote[bbxInvoiceId].paid = paidAmount]
        ELSE IF IsOrphanSignal(answer) THEN Resync(called, refault)
        ELSE called

\* the stored remote identifier of the entity of a kind
StoredId(kind) ==
    CASE kind = "account"    -> cust.bbxId
      [] kind = "contact"    -> con.bbxId
      [] kind = "invoice"    -> inv.bbxId
      [] kind = "creditNote" -> cm.bbxId
      [] kind = "payment"    -> inv.bbxId

\* a run of the synchronizer of a kind ends in w
Finish(kind, w) ==
    /\ ~w.full
    /\ cust' = w.cust
    /\ con' = w.con
    /\ inv' = w.inv
    /\ cm' = w.cm
    /\ remote' = w.remote
    /\ nextRemote' = w.next
    /\ clean' = [k \in EntityKinds |->
                    IF k = kind THEN ~w.raised
                    ELSE clean[k] /\ w.cust.bbxId = cust.bbxId]
    /\ run' = [kind |-> kind, second |-> kind \in EntityKinds /\ clean[kind],
               got404 |-> kind \in EntityKinds /\ w.got404, ok |-> ~w.raised,
               oldId |-> IF w.got404 \/ w.paidAnswer = 404 THEN StoredId(kind) ELSE 0,
               calls |-> w.calls, had |-> cust.bbxId, parent |-> w.parent,
               paidAnswer |-> w.paidAnswer, paidArg |-> w.paidArg, resync |-> w.resync]

SyncAccount == \E f \in Faults : Finish("account", SyncAccountOn(World, f))
SyncContact == \E f \in Faults : Finish("contact", SyncContactOn(World, f))
SyncInvoice == \E f \in Faults : Finish("invoice", SyncInvoiceOn(World, f))
SyncCreditMemo == \E f \in Faults : Finish("creditNote", SyncCreditMemoOn(World, f))
SyncPayment ==
    \E f \in Faults \ {"create"}, g \in Faults :
        Finish("payment", SyncPaymentOn(World, f, g))

\* a user edits a record of the account; the fields of a customer and of a
\* contact are sent to the remote platform and never read back, so that their
\* values are left out
LocalEdit(kind) ==
    /\ CASE kind \in {"account", "contact"} ->
              UNCHANGED <<cust, con, inv, cm>>
         [] kind = "invoice" ->
              /\ \E t \in InvoiceTotals, r \in InvoiceRemaining :
                    /\ <<t, r>> # <<inv.total, inv.remaining>>
                    /\ inv' = [inv EXCEPT !.total = t, !.remaining = r]
              /\ UNCHANGED <<cust, con, cm>>
         [] kind = "creditNote" ->
              /\ \E t \in CreditTotals \ {cm.total} : cm' = [cm EXCEPT !.total = t]
              /\ UNCHANGED <<cust, con, inv>>
    /\ clean' = [clean EXCEPT ![kind] = FALSE]
    /\ run' = NoRun
    /\ UNCHANGED <<remote, nextRemote>>

\* an object is deleted on the remote platform, outside the connector
RemoteVanish(id) ==
    /\ remote[id] # Absent
    /\ remote' = [remote EXCEPT ![id] = Absent]
    /\ clean' = [k \in EntityKinds |-> FALSE]
    /\ run' = NoRun
    /\ UNCHANGED <<cust, con, inv, cm, nextRemote>>

\* a new account: nothing linked, nothing on the remote platform
SyncInit ==
    /\ cust = [bbxId |-> 0]
    /\ con = [bbxId |-> 0]
    /\ \E r \in InvoiceRemaining : inv = [bbxId |-> 0, total |-> 100, remaining |-> r]
    /\ cm = [bbxId |-> 0, total |-> 50]
    /\ remote = [i \in RemoteIds |-> Absent]
    /\ nextRemote = 1
    /\ clean = [k \in EntityKinds |-> FALSE]
    /\ run = NoRun

\* the records where the synchronizers are not part of the specification
SyncIdle ==
    /\ cust = [bbxId |-> 0]
    /\ con = [bbxId |-> 0]
    /\ inv = [bbxId |-> 0, total |-> 100, remaining |-> 0]
    /\ cm = [bbxId |-> 0, total |-> 50]
    /\ remote = [i \in RemoteIds |-> Absent]
    /\ nextRemote = 1
    /\ clean = [k \in EntityKinds |-> FALSE]
    /\ run = NoRun

SyncNext ==
    \/ UNCHANGED <<qvars, cvars, xvars, tvars, evars>> /\ SyncAccount
    \/ UNCHANGED <<qvars, cvars, xvars, tvars, evars>> /\ SyncContact
    \/ UNCHANGED <<qvars, cvars, xvars, tvars, evars>> /\ SyncInvoice
    \/ UNCHANGED <<qvars, cvars, xvars, tvars, evars>> /\ SyncCreditMemo
    \/ UNCHANGED <<qvars, cvars, xvars, tvars, evars>> /\ \E k \in EntityKinds : LocalEdit(k)
    \/ UNCHANGED <<qvars, cvars, xvars, tvars, evars>> /\ \E i \in RemoteIds : RemoteVanish(i)

\* payments: the customer, its invoice and the payments applied to it
PayNext ==
    \/ UNCHANGED <<qvars, cvars, xvars, tvars, evars>> /\ SyncAccount
    \/ UNCHANGED <<qvars, cvars, xvars, tvars, evars>> /\ SyncInvoice
    \/ UNCHANGED <<qvars, cvars, xvars, tvars, evars>> /\ SyncPayment
    \/ UNCHANGED <<qvars, cvars, xvars, tvars, evars>> /\ LocalEdit("invoice")
    \/ UNCHANGED <<qvars, cvars, xvars, tvars, evars>> /\ \E i \in RemoteIds : RemoteVanish(i)

-----------------------------------------------------------------------------
(* enqueueSync in two invocations at once.  User-event scripts of different
   saves, and the map stage of the full sync, run beside each other; between
   the existence query of enqueueSync and its save nothing holds the queue.
   The queue processor is left out of this specification: it is at rest. *)

Invocations == {1, 2}

IdleCall == [pc |-> "idle", rtype |-> "", rid |-> "", action |-> "", found |-> 0,
             overlap |-> FALSE]

\* the other invocation is between its query and its save for the same pair
Overlaps(p, rtype, rid) ==
    \E o \in Invocations \ {p} :
        enq[o].pc = "checked" /\ enq[o].rtype = rtype /\ enq[o].rid = rid

\* enqueueSync up to the answer of its existence query
EnqueueQuery(p, rtype, rid, action) ==
    /\ enq[p].pc \in {"idle", "done"}
    /\ \E f \in IF ExistingFor(rtype, rid) = {} THEN {0} ELSE ExistingFor(rtype, rid) :
          enq' = [enq EXCEPT ![p] = [pc |-> "checked", rtype |-> rtype, rid |-> rid,
                                     action |-> action, found |-> f,
                                     overlap |-> Overlaps(p, rtype, rid)]]
    /\ UNCHANGED qvars

\* enqueueSync from the answer on: load and save the row found, or create one;
\* a row deleted meanwhile makes record.load throw, which the catch swallows
EnqueueSave(p) ==
    /\ enq[p].pc = "checked"
    /\ LET c == enq[p]
       IN  IF c.found # 0
           THEN /\ queue' = IF c.found \in QueueIds
                            THEN [queue EXCEPT ![c.found].action = c.action,
                                               ![c.found].status = "pending"]
                            ELSE queue
                /\ UNCHANGED nextId
           ELSE /\ nextId <= MaxQueueId
                /\ queue' = [q \in QueueIds \cup {nextId} |->
                               IF q = nextId THEN NewEntry(c.rtype, c.rid, c.action)
                               ELSE queue[q]]
                /\ nextId' = nextId + 1
    /\ enq' = [enq EXCEPT ![p].pc = "done"]
    /\ lastAct' = [op |-> "enqueueSync", rtype |-> enq[p].rtype, rid |-> enq[p].rid,
                   action |-> enq[p].action]
    /\ twice' = FALSE
    /\ UNCHANGED <<dpc, entries, idx, usage, fails>>

EnqIdle == enq = [p \in Invocations |-> IdleCall]

RaceNext ==
    \/ UNCHANGED <<cvars, svars, tvars, evars>> /\ \E p \in Invocations, k \in SyncKinds, r \in NsIds,
                                        a \in SyncActions : EnqueueQuery(p, k, r, a)
    \/ UNCHANGED <<cvars, svars, tvars, evars>> /\ \E p \in Invocations : EnqueueSave(p)

-----------------------------------------------------------------------------
(* The user-event scripts (ue_customer, ue_contact, ue_invoice, ue_credit_memo,
   ue_customer_payment) and the map stage of the full sync.  One step is one
   afterSubmit (or one map call) from its start to its return.  At most one
   synchronizer function of the run has a remote call that fails; the queue
   save of the catch block succeeds or throws. *)

TriggerKinds == {"customer", "contact", "invoice", "creditmemo", "customerpayment",
                 "fullsync"}
EventTypes == {"create", "edit", "delete"}

\* the parent customer of a contact: its record loads and holds an account
\* identifier, loads and holds none, or does not load any more
Parents == {"linked", "unlinked", "gone"}

DeleteFns == {"deleteAccount", "deleteContact", "deleteInvoice", "deleteCreditMemo"}

\* what a client method raises: TokenExpiredError, RateLimitError, ApiError
TokenExpired == [name |-> "TokenExpiredError", status |-> 0,
                 message |-> <<"Server rejected the access token">>]
RateLimited == [name |-> "RateLimitError", status |-> 0,
                message |-> <<"Rate limit exceeded after 3 retries">>]
ApiErrorOf(code, body) ==
    [name |-> "ApiError", status |-> code, message |-> ErrorMessage(code, body)]

\* the bodies of error responses: none, a message, a message with "404" in it
TriggerBodies == {"empty", "message", "message404"}

\* the errors of a failing remote call of a synchronizer (a 404 is the orphan
\* case of SyncSpec) and of a delete function
SyncErrors == {TokenExpired, RateLimited, ApiErrorOf(500, "empty")}
DeleteErrors == SyncErrors \cup {ApiErrorOf(500, "message404")}
                           \cup {ApiErrorOf(404, b) : b \in TriggerBodies}

NoFault == [fn |-> "none", err |-> [name |-> "", status |-> 0, message |-> <<>>]]

\* no fault, or a call of one function of the flow fails
FaultsIn(flow) ==
    {NoFault} \cup {[fn |-> flow[i], err |-> e] : i \in 1..Len(flow), e \in SyncErrors}
              \cup {[fn |-> flow[i], err |-> e] : i \in {j \in 1..Len(flow) : flow[j] \in DeleteFns},
                                                 e \in DeleteErrors}

\* e.message.includes('404')
Includes404(message) ==
    \/ message = <<"API Error", 404>>
    \/ message = <<"message of body, with 404 in it">>

\* whether a synchronizer function raises when a client call inside it raises e
FnRaises(fn, e) ==
    CASE fn \in {"syncAccount", "syncContact", "syncInvoice", "syncCreditMemo"} -> TRUE
      [] fn \in {"syncCustomerEmailContacts", "syncCreditAllocations", "syncPayment"} -> FALSE
      [] fn \in DeleteFns -> ~Includes404(e.message)

\* the client call of a delete function
DeleteCall(fn) ==
    CASE fn = "deleteAccount"    -> "accounts.delete"
      [] fn = "deleteContact"    -> "contacts.delete"
      [] fn = "deleteInvoice"    -> "invoices.delete"
      [] fn = "deleteCreditMemo" -> "creditNotes.delete"

\* syncFullAccount: the account, then contacts, email contacts, invoices,
\* credit memos and allocations, each of these in a try that only logs
FullAccountSteps ==
    <<"syncAccount", "syncContact", "syncCustomerEmailContacts", "syncInvoice",
      "syncCreditMemo", "syncCreditAllocations">>

\* a customer delete that also deletes what belongs to the account
CustomerDelete_Children(linked) ==
    IF linked
    THEN <<"deleteAccount", "deleteContact", "deleteInvoice", "deleteCreditMemo">>
    ELSE <<>>

\* ue_customer on DELETE: if (bbxAccountId) sync.deleteAccount(bbxAccountId)
CustomerDelete(linked) ==
    IF linked THEN <<"deleteAccount">> ELSE <<>>

\* the synchronizer functions a trigger calls when none of them raises
Flow(kind, type, linked, parent) ==
    CASE kind = "customer" ->
            IF type = "delete"
            THEN CustomerDelete(linked)
            ELSE <<"syncAccount", "syncCustomerEmailContacts">>
      [] kind = "contact" ->
            IF type = "delete"
            THEN IF linked /\ parent = "linked" THEN <<"deleteContact">> ELSE <<>>
            ELSE <<"syncContact">>
      [] kind = "invoice" ->
            IF type = "delete"
            THEN IF linked THEN <<"deleteInvoice">> ELSE <<>>
            ELSE <<"syncInvoice">>
      [] kind = "creditmemo" ->
            IF type = "delete"
            THEN IF linked THEN <<"deleteCreditMemo">> ELSE <<>>
            ELSE <<"syncCreditMemo", "syncCreditAllocations">>
      [] kind = "customerpayment" ->
            IF type = "delete" THEN <<"syncInvoice">> ELSE <<"syncPayment">>
      [] kind = "fullsync" -> FullAccountSteps

\* a try around the call of fn, between fn and the catch of the trigger
InnerCatch(kind, type, fn) ==
    \/ kind = "fullsync" /\ fn # "syncAccount"
    \/ kind = "customerpayment" /\ type = "delete"

Position(s, x) == CHOOSE i \in 1..Len(s) : s[i] = x

IsDeleteFn(fn) == fn \in DeleteFns

\* the remote delete calls of the functions run
DeleteCalls(fns) ==
    LET d == SelectSeq(fns, IsDeleteFn)
    IN  [i \in 1..Len(d) |-> DeleteCall(d[i])]

NoTrig == [kind |-> "none"]

Trigger(kind, type, linked, parent, fault, saveOk) ==
    LET flow     == Flow(kind, type, linked, parent)
        hit      == fault # NoFault /\ \E i \in 1..Len(flow) : flow[i] = fault.fn
        raised   == hit /\ FnRaises(fault.fn, fault.err)
        surfaced == raised /\ ~InnerCatch(kind, type, fault.fn)
        fns      == IF surfaced THEN SubSeq(flow, 1, Position(flow, fault.fn)) ELSE flow
        action   == IF type = "create" THEN "create" ELSE "update"
    IN  /\ truns < MaxTriggerRuns
        /\ truns' = truns + 1
        /\ trig' = [kind |-> kind, type |-> type, linked |-> linked, parent |-> parent,
                    fault |-> fault, fns |-> fns, hit |-> hit, raised |-> raised,
                    surfaced |-> surfaced, saveOk |-> saveOk,
                    delCalls |-> DeleteCalls(fns)]
        /\ IF saveOk /\ surfaced /\ kind = "fullsync"
             THEN \E r \in NsIds : EnqueueSync("customer", r, "sync")
           ELSE IF saveOk /\ surfaced /\ type = "delete"
             THEN \E b \in BbxIds : EnqueueDelete(kind, b, "acc1")
           ELSE IF saveOk /\ surfaced
             THEN \E r \in NsIds : EnqueueSync(kind, r, action)
           ELSE IF saveOk /\ raised /\ kind = "customerpayment"
             THEN \E r \in NsIds : EnqueueSync("invoice", r, "update")
           ELSE UNCHANGED qvars

TrigIdle == trig = NoTrig /\ truns = 0

\* the fields of the record that the run reads: the stored identifier on a
\* delete, the parent customer on the delete of a contact
LinkedFor(type) == IF type = "delete" THEN BOOLEAN ELSE {TRUE}
ParentsFor(kind, type) ==
    IF kind = "contact" /\ type = "delete" THEN Parents ELSE {"linked"}
\* "map" stands for a map call of the full sync
TypesFor(kind) == IF kind = "fullsync" THEN {"map"} ELSE EventTypes

\* the queue save is reached only by a run whose function raised
SavesFor(fault) ==
    IF fault # NoFault /\ FnRaises(fault.fn, fault.err) THEN BOOLEAN ELSE {TRUE}

TriggerNext ==
    \/ UNCHANGED <<cvars, svars, xvars, evars>> /\
          \E kind \in TriggerKinds : \E type \in TypesFor(kind) :
          \E linked \in LinkedFor(type), parent \in ParentsFor(kind, type) :
          \E fault \in FaultsIn(Flow(kind, type, linked, parent)) :
          \E saveOk \in SavesFor(fault) :
                Trigger(kind, type, linked, parent, fault, saveOk)

-----------------------------------------------------------------------------
(* Change detection on its own: the document a get call returned, the values
   of the record, and what syncInvoice and syncCreditMemo do with the two.
   One step is one document. *)

Numbers == {"N1", "N2"}
Totals == {100, 120}
Taxes == {0, 20}
PaidAmounts == {0, 60}

\* poNumber: otherrefnum || '' on the record; null, or a text, remotely
NsPoNumbers == {"", "PO1"}
BbxPoNumbers == {"null", "", "PO1"}

BbxDates ==
    {NoDate} \cup {[year |-> 2026, month |-> 1, day |-> d] : d \in 1..MaxDay}
NsDates ==
    {NsNoDate} \cup {[year |-> 2026, month |-> 1, day |-> d, hour |-> h] :
                        d \in 1..MaxDay, h \in {0, 23}}

BbxInvoices ==
    [number : Numbers, totalAmount : Totals, taxAmount : Taxes, issuedDate : BbxDates,
     dueDate : BbxDates, poNumber : BbxPoNumbers, paidAmount : PaidAmounts]
NsInvoices ==
    [tranId : Numbers, total : Totals, taxTotal : Taxes, tranDate : NsDates,
     dueDate : NsDates, poNumber : NsPoNumbers, paidAmount : {60}]
BbxCreditNotes ==
    [number : Numbers, totalAmount : Totals, taxAmount : Taxes, issuedDate : BbxDates]
NsCreditMemos ==
    [tranId : Numbers, total : Totals, taxTotal : Taxes, tranDate : NsDates]

NoCls == [kind |-> "none"]

\* syncInvoice from "Check if existing invoice has changed" to the create
DetectInvoice(existingBbxInvoice, nsValues) ==
    LET hasChanged == InvoiceHasChanged(existingBbxInvoice, nsValues)
    IN  /\ cls' = [kind |-> "invoice", bbx |-> existingBbxInvoice, ns |-> nsValues,
                   hasChanged |-> hasChanged,
                   calls |-> IF hasChanged
                             THEN <<"invoices.delete", "invoices.create">>
                             ELSE IF existingBbxInvoice.paidAmount # nsValues.paidAmount
                             THEN <<"invoices.updatePaidAmount">>
                             ELSE <<>>]

\* syncCreditMemo from "Check if existing credit note has changed" to the create
DetectCreditNote(existingBbxCreditNote, nsValues) ==
    LET hasChanged == CreditNoteHasChanged(existingBbxCreditNote, nsValues)
    IN  /\ cls' = [kind |-> "creditNote", bbx |-> existingBbxCreditNote, ns |-> nsValues,
                   hasChanged |-> hasChanged,
                   calls |-> IF hasChanged
                             THEN <<"creditNotes.delete", "creditNotes.create">>
                             ELSE <<>>]

ClsIdle == cls = NoCls

\* one document is looked at in a behaviour
DiffNext ==
    \/ UNCHANGED <<qvars, cvars, svars, xvars, tvars, full, alloc, cx, emc, drain2, rtok, docs>> /\ cls = NoCls /\
          \E b \in BbxInvoices, n \in NsInvoices : DetectInvoice(b, n)
    \/ UNCHANGED <<qvars, cvars, svars, xvars, tvars, full, alloc, cx, emc, drain2, rtok, docs>> /\ cls = NoCls /\
          \E b \in BbxCreditNotes, n \in NsCreditMemos : DetectCreditNote(b, n)

-----------------------------------------------------------------------------
(* syncFullAccount on its own: the customer, the contacts, open invoices and
   credit memos its queries return, and which of the calls it makes raise.
   One step is one call of syncFullAccount. *)

FullSteps ==
    <<"syncAccount", "syncContact", "syncCustomerEmailContacts", "syncInvoice",
      "syncCreditMemo", "syncCreditAllocations">>

\* the rows of a query: ids 1..n
Rows(n) == [i \in 1..n |-> i]

\* the calls that can raise: a function on an item
FullCalls ==
    {[fn |-> "syncAccount", id |-> 1], [fn |-> "syncCustomerEmailContacts", id |-> 1]}
    \cup {[fn |-> f, id |-> i] :
            f \in {"syncContact", "syncInvoice", "syncCreditMemo", "syncCreditAllocations"},
            i \in 1..MaxItems}

\* the queries of syncFullAccount that can raise
FullQueries == {"contacts", "invoices", "creditmemos"}

RECURSIVE Each_Stop(_, _, _)
\* a loop that ends at the first item that raises
Each_Stop(fn, ids, fail) ==
    IF ids = <<>> THEN <<>>
    ELSE IF [fn |-> fn, id |-> Head(ids)] \in fail
         THEN <<[fn |-> fn, id |-> Head(ids), ok |-> FALSE]>>
         ELSE <<[fn |-> fn, id |-> Head(ids), ok |-> TRUE]>> \o Each_Stop(fn, Tail(ids), fail)

RECURSIVE Each(_, _, _)
\* for (const row of results) { try { fn(id) } catch (e) { log } }
Each(fn, ids, fail) ==
    IF ids = <<>> THEN <<>>
    ELSE <<[fn |-> fn, id |-> Head(ids), ok |-> [fn |-> fn, id |-> Head(ids)] \notin fail]>>
         \o Each(fn, Tail(ids), fail)

\* syncFullAccount(customerId): the calls it makes, in order, and whether it raises
SyncFullAccountCalls(contacts, invoices, cms, fail, qfail) ==
    LET account == [fn |-> "syncAccount", id |-> 1]
        email   == [fn |-> "syncCustomerEmailContacts", id |-> 1]
    IN  IF account \in fail
        THEN [attempts |-> <<[fn |-> "syncAccount", id |-> 1, ok |-> FALSE]>>,
              raised |-> TRUE]
        ELSE [attempts |->
                 <<[fn |-> "syncAccount", id |-> 1, ok |-> TRUE]>>
                 \o (IF "contacts" \in qfail THEN <<>>
                     ELSE Each("syncContact", contacts, fail))
                 \o <<[fn |-> email.fn, id |-> 1, ok |-> email \notin fail]>>
                 \o (IF "invoices" \in qfail THEN <<>>
                     ELSE Each("syncInvoice", invoices, fail))
                 \o (IF "creditmemos" \in qfail THEN <<>>
                     ELSE Each("syncCreditMemo", cms, fail)
                          \o Each("syncCreditAllocations", cms, fail)),
              raised |-> FALSE]

NoFull == [kind |-> "none"]

SyncFullAccount(nc, ni, ncm, fail, qfail) ==
    LET r == SyncFullAccountCalls(Rows(nc), Rows(ni), Rows(ncm), fail, qfail)
    IN  full' = [kind |-> "full", contacts |-> nc, invoices |-> ni, cms |-> ncm,
                 fail |-> fail, qfail |-> qfail,
                 attempts |-> r.attempts, raised |-> r.raised]

FullIdle == full = NoFull

\* one call in a behaviour; at most two of its calls and one of its queries raise
FullNext ==
    \/ UNCHANGED <<qvars, cvars, svars, xvars, tvars, cls, alloc, cx, emc, drain2, rtok, docs>> /\ full = NoFull /\
          \E nc \in 0..MaxItems, ni \in 0..MaxItems, ncm \in 0..MaxItems :
          \E fail \in {{}} \cup {{a, b} : a \in FullCalls, b \in FullCalls} :
          \E qfail \in {{}} \cup {{q} : q \in FullQueries} :
                SyncFullAccount(nc, ni, ncm, fail, qfail)

-----------------------------------------------------------------------------
(* syncCreditAllocations on its own: one credit memo, the lines of its "apply"
   sublist (line i applies to invoice i), the remote identifier stored on each
   invoice (0: none) and on the credit memo (0: none). *)

Amounts == {0, 50}

ApplyAnswers == {200, 400, 500}

ApplyLines == [apply : BOOLEAN, amount : Amounts]

\* the remote identifier that invoice i gets when it is created remotely
BbxInvoiceIdOf(i) == i

\* runSuiteQL of custbody_bbx_invoice_id in its try: undefined when it raises
LookupInvoice(invBbx, lookups, i) == IF lookups[i] = "ok" THEN invBbx[i] ELSE 0

ApplyCall(cnId, found, amount) ==
    [op |-> "creditAllocations.apply", creditNoteId |-> cnId, invoiceId |-> found,
     amount |-> amount]

ApplyLog(answer) ==
    [op |-> "logOperation", status |-> IF answer = 200 THEN "success" ELSE "error"]

RECURSIVE AllocLoop_Stop(_, _, _, _, _, _)
\* a loop that a failed call ends
AllocLoop_Stop(i, cnId, lines, invBbx, lookups, answers) ==
    IF i > Len(lines) THEN <<>>
    ELSE LET found == LookupInvoice(invBbx, lookups, i)
         IN  IF ~lines[i].apply \/ lines[i].amount <= 0 \/ found = 0
             THEN AllocLoop_Stop(i + 1, cnId, lines, invBbx, lookups, answers)
             ELSE <<[line |-> i, call |-> ApplyCall(cnId, found, lines[i].amount),
                     log |-> ApplyLog(answers[i])]>>
                  \o (IF answers[i] = 200
                      THEN AllocLoop_Stop(i + 1, cnId, lines, invBbx, lookups, answers)
                      ELSE <<>>)

RECURSIVE AllocLoop(_, _, _, _, _, _)
\* for (let i = 0; i < applyCount; i++): the calls and their log entries, from line i on
AllocLoop(i, cnId, lines, invBbx, lookups, answers) ==
    IF i > Len(lines) THEN <<>>
    ELSE LET found == LookupInvoice(invBbx, lookups, i)
         IN  IF ~lines[i].apply \/ lines[i].amount <= 0 \/ found = 0
             THEN AllocLoop(i + 1, cnId, lines, invBbx, lookups, answers)
             ELSE <<[line |-> i, call |-> ApplyCall(cnId, found, lines[i].amount),
                     log |-> ApplyLog(answers[i])]>>
                  \o AllocLoop(i + 1, cnId, lines, invBbx, lookups, answers)

\* syncCreditAllocations(creditMemoId): nothing when the credit memo has no
\* remote identifier, the loop over its lines otherwise
SyncCreditAllocationsCalls(cnId, lines, invBbx, lookups, answers) ==
    IF cnId = 0 THEN <<>> ELSE AllocLoop(1, cnId, lines, invBbx, lookups, answers)

\* the lines a call left without an allocation for want of the invoice's identifier
SkippedLines(cnId, lines, invBbx, lookups) ==
    IF cnId = 0 THEN {}
    ELSE {i \in 1..Len(lines) :
            lines[i].apply /\ lines[i].amount > 0 /\ LookupInvoice(invBbx, lookups, i) = 0}

NoAlloc == [kind |-> "none"]

\* the record of a call of syncCreditAllocations on the credit memo
AllocRun(cnId, lines, invBbx, lookups, answers, runs, issued, skipped) ==
    LET done == SyncCreditAllocationsCalls(cnId, lines, invBbx, lookups, answers)
    IN  [kind |-> "creditmemo", last |-> "syncCreditAllocations",
         cnId |-> cnId, lines |-> lines, invBbx |-> invBbx,
         lookups |-> lookups, answers |-> answers,
         done |-> done, raised |-> FALSE, runs |-> runs,
         issued |-> issued \cup {done[k].line : k \in 1..Len(done)},
         skipped |-> skipped \cup SkippedLines(cnId, lines, invBbx, lookups)]

\* syncCreditAllocations on a credit memo as it was saved
SyncCreditAllocations(cnId, lines, invBbx, lookups, answers) ==
    alloc' = AllocRun(cnId, lines, invBbx, lookups, answers, 1, {}, {})

\* syncCreditAllocations on the same credit memo once more (it was edited, or
\* its queue entry or a full-account synchronization reached it)
SyncCreditAllocationsAgain(answers) ==
    /\ alloc.runs < MaxAllocRuns
    /\ alloc' = AllocRun(alloc.cnId, alloc.lines, alloc.invBbx,
                         [i \in 1..Len(alloc.lines) |-> "ok"], answers,
                         alloc.runs + 1, alloc.issued, alloc.skipped)

\* syncInvoice(i) creating the invoice remotely and storing its identifier:
\* it makes no credit-allocation call and queues nothing
SyncInvoiceCreates(i) ==
    /\ alloc.invBbx[i] = 0
    /\ alloc' = [alloc EXCEPT !.last = "syncInvoice",
                              !.invBbx[i] = BbxInvoiceIdOf(i), !.done = <<>>]

AllocIdle == alloc = NoAlloc

\* one call with every kind of line, lookup and answer
AllocNext ==
    \/ UNCHANGED <<qvars, cvars, svars, xvars, tvars, cls, full, cx, emc, drain2, rtok, docs>> /\ alloc = NoAlloc /\
          \E n \in 0..MaxItems, cnId \in {0, 1} :
          \E lines \in [1..n -> ApplyLines], linked \in [1..n -> BOOLEAN],
             lookups \in [1..n -> {"ok", "raises"}], answers \in [1..n -> ApplyAnswers] :
                SyncCreditAllocations(cnId, lines,
                    [i \in 1..n |-> IF linked[i] THEN BbxInvoiceIdOf(i) ELSE 0],
                    lookups, answers)

\* the credit memo's lines are all applied; invoices are synchronized later
\* and the credit memo may be synchronized again
RetryNext ==
    \/ UNCHANGED <<qvars, cvars, svars, xvars, tvars, cls, full, cx, emc, drain2, rtok, docs>> /\ alloc = NoAlloc /\
          \E n \in 1..MaxItems, cnId \in {0, 1} :
          \E linked \in [1..n -> BOOLEAN], answers \in [1..n -> {200, 400}] :
                SyncCreditAllocations(cnId, [i \in 1..n |-> [apply |-> TRUE, amount |-> 50]],
                    [i \in 1..n |-> IF linked[i] THEN BbxInvoiceIdOf(i) ELSE 0],
                    [i \in 1..n |-> "ok"], answers)
    \/ UNCHANGED <<qvars, cvars, svars, xvars, tvars, cls, full, cx, emc, drain2, rtok, docs>> /\ alloc # NoAlloc /\
          \E i \in 1..Len(alloc.lines) : SyncInvoiceCreates(i)
    \/ UNCHANGED <<qvars, cvars, svars, xvars, tvars, cls, full, cx, emc, drain2, rtok, docs>> /\ alloc # NoAlloc /\
          \E answers \in [1..Len(alloc.lines) -> {200, 400}] :
                SyncCreditAllocationsAgain(answers)

\* the invoices get synchronized: their queue entries are drained
RetryFairness == \A i \in 1..MaxItems :
    WF_alloc(alloc # NoAlloc /\ i \in 1..Len(alloc.lines) /\ SyncInvoiceCreates(i))

-----------------------------------------------------------------------------
(* The Connection record of one name and the script invocations that hold a
   Connection object for it. A field that is null or empty is 0. save() is two
   steps, the query that finds the record and the load or create with the
   writes, so that the invocations interleave as concurrent scripts do. *)

Procs == {1, 2}

Orgs == {1, 2}

\* new Connection({id: null, name, ...null}): no record of the name was found
NullConnection ==
    [pc |-> "loaded", id |-> 0, organizationId |-> 0, oauthAccessToken |-> 0,
     connected |-> FALSE, op |-> "none", target |-> 0]

\* new Connection(results[0].asMap()): the object carries the record's fields
ConnectionOf(recs, r) ==
    [pc |-> "loaded", id |-> r, organizationId |-> recs[r].organizationId,
     oauthAccessToken |-> recs[r].oauthAccessToken, connected |-> recs[r].connected,
     op |-> "none", target |-> 0]

\* the rows of "SELECT ... WHERE cx.name = name"; the query has no ORDER BY, so
\* results[0] is any of them. 0: no row
FirstResult(recs) == IF recs = <<>> THEN {0} ELSE 1..Len(recs)

\* getConnection(name) in invocation p
GetConnection(p) ==
    /\ cx.obj[p].pc \in {"idle", "loaded"}
    /\ \E r \in FirstResult(cx.recs) :
          cx' = [cx EXCEPT !.obj[p] = IF r = 0 THEN NullConnection
                                       ELSE ConnectionOf(cx.recs, r)]

\* the first half of save(): the record to write is the object's own, else the
\* one the query by name finds, else a new one (0)
SaveTarget(recs, o) == IF o.id # 0 THEN {o.id} ELSE FirstResult(recs)

\* setOrganizationId(organizationId), up to the point where save() has found
\* its record
SetOrganizationId(p, organizationId) ==
    /\ cx.obj[p].pc = "loaded"
    /\ \E t \in SaveTarget(cx.recs, cx.obj[p]) :
          cx' = [cx EXCEPT !.obj[p] = [cx.obj[p] EXCEPT !.pc = "saving",
                                           !.organizationId = organizationId,
                                           !.op = "setOrganizationId", !.target = t]]

\* setupOAuthTokens({...}) with the tokens the refresh returned, up to the
\* point where save() has found its record
SetupOAuthTokens(p, token) ==
    /\ cx.obj[p].pc = "loaded"
    /\ \E t \in SaveTarget(cx.recs, cx.obj[p]) :
          cx' = [cx EXCEPT !.obj[p] = [cx.obj[p] EXCEPT !.pc = "saving",
                                           !.oauthAccessToken = token,
                                           !.connected = TRUE,
                                           !.op = "setupOAuthTokens", !.target = t]]

\* the field writes of save(): every field of the object that is not null or
\* empty is set on the record, also the fields the caller did not change
SetAllFields(rec, o) ==
    [organizationId |-> IF o.organizationId # 0 THEN o.organizationId ELSE rec.organizationId,
     oauthAccessToken |-> IF o.oauthAccessToken # 0 THEN o.oauthAccessToken
                          ELSE rec.oauthAccessToken,
     connected |-> o.connected]

NewRecord == [organizationId |-> 0, oauthAccessToken |-> 0, connected |-> FALSE]

\* the second half of save(): record.create or record.load of the record
\* found, the field writes, rec.save()
SaveWrite(p) ==
    LET o == cx.obj[p]
        created == o.target = 0
        id == IF created THEN Len(cx.recs) + 1 ELSE o.target
        recs == IF created THEN Append(cx.recs, SetAllFields(NewRecord, o))
                ELSE [cx.recs EXCEPT ![id] = SetAllFields(cx.recs[id], o)]
    IN  /\ o.pc = "saving"
        /\ cx' = [cx EXCEPT !.recs = recs,
                     !.obj[p] = [o EXCEPT !.pc = "loaded", !.id = id, !.op = "none",
                                          !.target = 0],
                     !.selected = IF o.op = "setOrganizationId" THEN o.organizationId ELSE @,
                     !.rotated = IF o.op = "setupOAuthTokens" THEN o.oauthAccessToken ELSE @]

NoCx ==
    [recs |-> <<>>,
     obj |-> [p \in Procs |-> [NullConnection EXCEPT !.pc = "idle"]],
     selected |-> 0, rotated |-> 0]

CxIdle == cx = NoCx

ConnNext ==
    \/ UNCHANGED <<qvars, cvars, svars, xvars, tvars, cls, full, alloc, emc, drain2, rtok, docs>> /\
          \E p \in Procs : GetConnection(p)
    \/ UNCHANGED <<qvars, cvars, svars, xvars, tvars, cls, full, alloc, emc, drain2, rtok, docs>> /\
          \E p \in Procs, organizationId \in Orgs : SetOrganizationId(p, organizationId)
    \/ UNCHANGED <<qvars, cvars, svars, xvars, tvars, cls, full, alloc, emc, drain2, rtok, docs>> /\
          \E p \in Procs, token \in 1..MaxTokens : SetupOAuthTokens(p, token)
    \/ UNCHANGED <<qvars, cvars, svars, xvars, tvars, cls, full, alloc, emc, drain2, rtok, docs>> /\
          \E p \in Procs : SaveWrite(p)

-----------------------------------------------------------------------------
(* syncCustomerEmailContacts on its own: the customer's two email fields, the
   emails of its contact records, and the contacts the remote account has.
   One step is one call. An email is a string; "null" is an absent one. *)

\* String.prototype.trim on the strings used here
Trim(s) ==
    CASE s = " "  -> ""
      [] s = "A " -> "A"
      [] s = "a " -> "a"
      [] OTHER    -> s

\* String.prototype.toLowerCase on the strings used here
ToLowerCase(s) ==
    CASE s = "A"  -> "a"
      [] s = "A " -> "a "
      [] s = "B"  -> "b"
      [] OTHER    -> s

\* SANDBOX_MODE of config.js
SANDBOX_MODE == FALSE

\* resolveEmail(realEmail)
ResolveEmail(realEmail) ==
    IF SANDBOX_MODE /\ realEmail # "" THEN "override" ELSE realEmail

\* the values of the customer's email fields, of a contact record's email and
\* of a remote contact's email
CustomerEmails == {"", " ", "a", "A ", "b"}
ContactEmails == {"a", "A ", "b"}
RemoteEmails == {"null", "a", "A", "b"}

\* emailsToSync: the relance email first, then the customer's email unless it
\* is the same one
EmailsToSync(relanceEmail, customerEmail) ==
    (IF relanceEmail # "" /\ Trim(relanceEmail) # ""
     THEN <<[email |-> Trim(relanceEmail), isPrimary |-> TRUE]>> ELSE <<>>)
    \o (IF /\ customerEmail # "" /\ Trim(customerEmail) # ""
           /\ ToLowerCase(Trim(customerEmail)) # ToLowerCase(Trim(relanceEmail))
        THEN <<[email |-> Trim(customerEmail), isPrimary |-> relanceEmail = ""]>>
        ELSE <<>>)

\* legitimateEmails: the emails to sync and, when the query of the contact
\* records answers, the emails of its rows
LegitimateEmails(toSync, contactEmails, queryFails) ==
    {ToLowerCase(toSync[i].email) : i \in 1..Len(toSync)}
    \cup (IF queryFails THEN {}
          ELSE {ToLowerCase(Trim(contactEmails[i])) :
                  i \in {j \in 1..Len(contactEmails) :
                           contactEmails[j] # "" /\ Trim(contactEmails[j]) # ""}})

\* the remote contacts that the loop calls contacts.delete for
Orphans(bbxContacts, legitimate) ==
    {i \in 1..Len(bbxContacts) :
        /\ bbxContacts[i] # "null" /\ bbxContacts[i] # ""
        /\ ToLowerCase(bbxContacts[i]) \notin legitimate}

NoRec == [kind |-> "none"]

\* syncCustomerEmailContacts(customerId) for a customer with a remote account;
\* fault names the call that fails: none, contacts.list, contacts.upsert, or
\* contacts.delete of one remote contact
SyncCustomerEmailContacts(relanceEmail, customerEmail, contactEmails, queryFails, bbxContacts, fault) ==
    LET toSync == EmailsToSync(relanceEmail, customerEmail)
        legitimate == LegitimateEmails(toSync, contactEmails, queryFails)
        tried == IF fault.call = "list" THEN {} ELSE Orphans(bbxContacts, legitimate)
        deleted == {i \in tried : fault # [call |-> "delete", id |-> i]}
        upserts == [i \in 1..Len(toSync) |->
                       [fullName |-> toSync[i].email,
                        email |-> ResolveEmail(toSync[i].email),
                        isPrimary |-> toSync[i].isPrimary,
                        ok |-> fault.call # "upsert"]]
    IN  emc' = [kind |-> "emails", relanceEmail |-> relanceEmail,
                customerEmail |-> customerEmail, contactEmails |-> contactEmails,
                queryFails |-> queryFails, bbxContacts |-> bbxContacts,
                fault |-> fault, listed |-> fault.call # "list",
                tried |-> tried, deleted |-> deleted, upserts |-> upserts]

RecIdle == emc = NoRec

RecNext ==
    \/ UNCHANGED <<qvars, cvars, svars, xvars, tvars, cls, full, alloc, cx, drain2, rtok, docs>> /\
          emc = NoRec /\
          \E relanceEmail \in CustomerEmails, customerEmail \in CustomerEmails,
             nc \in 0..MaxItems, nb \in 0..MaxItems, queryFails \in BOOLEAN :
          \E contactEmails \in [1..nc -> ContactEmails],
             bbxContacts \in [1..nb -> RemoteEmails],
             fault \in [call : {"none", "list", "upsert"}, id : {0}]
                       \cup [call : {"delete"}, id : 1..nb] :
                SyncCustomerEmailContacts(relanceEmail, customerEmail, contactEmails,
                                          queryFails, bbxContacts, fault)

NoDrain2 == [pc |-> "idle", entries |-> <<>>, idx |-> 1, usage |-> 0]
\* the exp claim of the token numbered t, as a date
ExpiryOf(t) == 100 + t

\* the connection record after the OAuth exchange: the first tokens and their
\* expiries; 0 stands for an empty field
FirstTokens == [access |-> 1, accessExp |-> ExpiryOf(1),
                refresh |-> 1, refreshExp |-> ExpiryOf(1)]

NoRefresh == [kind |-> "none", rec |-> FirstTokens, prev |-> FirstTokens, runs |-> 0]
\* amounts of the document
DocTotals == {1, 2}

\* a document that was never synchronized: no stored identifier (0), no remote
\* object; remote[i] is the total the remote object i holds, 0 when there is none
NoDocs == [kind |-> "none", stored |-> 0, total |-> 1,
          remote |-> [i \in 1..MaxDocObjects |-> 0], made |-> 0,
          last |-> [fault |-> "none", raised |-> FALSE]]

RestIdle ==
    /\ ClsIdle /\ FullIdle /\ AllocIdle /\ CxIdle /\ RecIdle
    /\ drain2 = NoDrain2 /\ rtok = NoRefresh /\ docs = NoDocs

-----------------------------------------------------------------------------
(* The specifications *)

vars == <<qvars, cvars, svars, xvars, tvars, evars>>

Init == QueueInit /\ ClientIdle /\ SyncIdle /\ EnqIdle /\ TrigIdle /\ RestIdle

Next == QueueNext

\* submitFields({ status: 'processing' }) raises: the catch logs and the loop
\* continues with the next row
DrainMarkRaises ==
    /\ dpc = "loop"
    /\ idx <= Len(entries)
    /\ usage >= GovernanceFloor
    /\ idx' = idx + 1
    /\ lastAct' = [op |-> "markRaised", id |-> Cur.id]
    /\ twice' = FALSE
    /\ UNCHANGED <<queue, nextId, dpc, entries, usage, fails>>

\* dispatch raised and the submitFields of the catch block raised as well: the
\* inner catch logs, nothing is written
DrainUpdateRaises ==
    /\ dpc = "dispatch"
    /\ TotalFails < MaxFailures
    /\ \E e \in Errors :
         lastAct' = [op |-> "updateRaised", id |-> Cur.id,
                     call |-> Dispatch(Cur.rtype, Cur.rid, Cur.action), raised |-> e]
    /\ \E c \in DispatchCosts : usage' = Spend(usage, c)
    /\ fails' = [fails EXCEPT ![Cur.id] = @ + 1]
    /\ idx' = idx + 1
    /\ dpc' = "loop"
    /\ twice' = FALSE
    /\ UNCHANGED <<queue, nextId, entries>>

\* the row the second invocation is at
Cur2 == drain2.entries[drain2.idx]

\* execute, run by a second invocation of the script while the first is under
\* way: the same steps on its own rows, index and usage, against the same queue
\* records. A write to a record that the other invocation deleted raises.
SecondDrain ==
    /\ \/ /\ drain2.pc = "idle"
          /\ SelectEntries # <<>>
          /\ \E u \in UsageStart :
               drain2' = [pc |-> "loop", entries |-> SelectEntries, idx |-> 1, usage |-> u]
          /\ UNCHANGED <<queue, fails>>
       \/ /\ drain2.pc = "loop"
          /\ \/ drain2.idx > Len(drain2.entries)
             \/ drain2.usage < GovernanceFloor
          /\ drain2' = NoDrain2
          /\ UNCHANGED <<queue, fails>>
       \/ /\ drain2.pc = "loop"
          /\ drain2.idx <= Len(drain2.entries)
          /\ drain2.usage >= GovernanceFloor
          /\ IF Cur2.id \in QueueIds
                THEN /\ queue' = [queue EXCEPT ![Cur2.id].status = "processing"]
                     /\ drain2' = [drain2 EXCEPT !.pc = "dispatch"]
                ELSE /\ queue' = queue
                     /\ drain2' = [drain2 EXCEPT !.idx = @ + 1]
          /\ UNCHANGED fails
       \/ /\ drain2.pc = "dispatch"
          /\ Dispatch(Cur2.rtype, Cur2.rid, Cur2.action).fn # "throw"
          /\ queue' = [q \in QueueIds \ {Cur2.id} |-> queue[q]]
          /\ \E c \in DispatchCosts :
               drain2' = [drain2 EXCEPT !.pc = "loop", !.idx = @ + 1,
                                        !.usage = Spend(drain2.usage, c)]
          /\ UNCHANGED fails
       \/ /\ drain2.pc = "dispatch"
          /\ TotalFails < MaxFailures
          /\ \E e \in Errors :
               queue' = IF Cur2.id \in QueueIds
                          THEN [queue EXCEPT
                                  ![Cur2.id].status = FailedStatus(NewRetryCount(Cur2.retry)),
                                  ![Cur2.id].retry = NewRetryCount(Cur2.retry),
                                  ![Cur2.id].err = StoredError(e)]
                          ELSE queue
          /\ \E c \in DispatchCosts :
               drain2' = [drain2 EXCEPT !.pc = "loop", !.idx = @ + 1,
                                        !.usage = Spend(drain2.usage, c)]
          /\ fails' = [fails EXCEPT ![Cur2.id] = @ + 1]
    /\ UNCHANGED <<nextId, dpc, entries, idx, usage, lastAct, twice>>

\* the token endpoint's answers: a token is its number (0: the field is missing)
\* and what its payload decodes to
JwtKinds == {"exp", "noexp", "malformed"}
TokenBodies ==
    [access : [id : {0}, jwt : {"malformed"}], refresh : [id : {0}, jwt : {"malformed"}]]
    \cup [access : [id : {2}, jwt : JwtKinds], refresh : [id : {0}, jwt : {"malformed"}]]
    \cup [access : [id : {2}, jwt : JwtKinds], refresh : [id : {2}, jwt : JwtKinds]]

\* Date.now() of a refresh run
RefreshClock == {50, 150}

\* jwt.getTokenExpiration: the exp claim of a payload that decodes and has one,
\* null (0) otherwise
GetTokenExpiration(token) ==
    IF token.id # 0 /\ token.jwt = "exp" THEN ExpiryOf(token.id) ELSE 0

\* Connection.save for the token fields: a field is written when the object
\* holds a value for it and is left as it is otherwise
SaveTokens(rec, o) ==
    [access     |-> IF o.access # 0 THEN o.access ELSE rec.access,
     accessExp  |-> IF o.accessExp # 0 THEN o.accessExp ELSE rec.accessExp,
     refresh    |-> IF o.refresh # 0 THEN o.refresh ELSE rec.refresh,
     refreshExp |-> IF o.refreshExp # 0 THEN o.refreshExp ELSE rec.refreshExp]

\* one connection of the refresh script: skipped when its refresh token has
\* expired, left alone when the token endpoint refuses (ok = FALSE), otherwise
\* setupOAuthTokens with the new tokens and their decoded expiries
RefreshConnection(now, ok, tokenBody) ==
    LET connection == rtok.rec
        fresh == [id |-> rtok.runs + tokenBody.access.id, jwt |-> tokenBody.access.jwt]
        rotated == [id |-> rtok.runs + tokenBody.refresh.id, jwt |-> tokenBody.refresh.jwt]
        access == IF tokenBody.access.id = 0 THEN tokenBody.access ELSE fresh
        accessExpiresAt == GetTokenExpiration(access)
        refreshToken == IF tokenBody.refresh.id # 0 THEN rotated.id ELSE connection.refresh
        refreshExpiresAt == IF tokenBody.refresh.id # 0 THEN GetTokenExpiration(rotated)
                            ELSE connection.refreshExp
    IN  /\ rtok.runs < MaxRefreshRuns
        /\ rtok' =
             IF connection.refreshExp # 0 /\ connection.refreshExp < now
             THEN [kind |-> "skipped", rec |-> connection, prev |-> connection,
                   runs |-> rtok.runs + 1]
             ELSE IF ~ok
             THEN [kind |-> "failed", rec |-> connection, prev |-> connection,
                   runs |-> rtok.runs + 1]
             ELSE [kind |-> "refreshed",
                   rec |-> SaveTokens(connection,
                                      [access |-> access.id, accessExp |-> accessExpiresAt,
                                       refresh |-> refreshToken,
                                       refreshExp |-> refreshExpiresAt]),
                   prev |-> connection, runs |-> rtok.runs + 1]

RefreshNext ==
    \/ UNCHANGED <<qvars, cvars, svars, xvars, tvars, cls, full, alloc, cx, emc, drain2, docs>> /\
          \E now \in RefreshClock, ok \in BOOLEAN, tokenBody \in TokenBodies :
             RefreshConnection(now, ok, tokenBody)

\* the steps of syncInvoice and syncCreditMemo that can fail on their own: the
\* get, the clearing of a reference answered 404, the delete before a recreate,
\* the create, the write-back of the new identifier
DocFaults == {"none", "get", "clear", "delete", "create", "writeback"}

\* the remote objects that exist for the document
LiveObjects == {i \in 1..MaxDocObjects : docs.remote[i] # 0}

\* syncInvoice / syncCreditMemo from the read of the stored identifier on, for a
\* document whose customer has its account; the step named by fault raises when
\* it is reached
SyncDocument(kind, fault) ==
    LET bbxId == docs.stored
        found == bbxId # 0 /\ docs.remote[bbxId] # 0
        getRaises == bbxId # 0 /\ fault = "get"
        clearRaises == bbxId # 0 /\ ~found /\ fault = "clear"
        hasChanged == found /\ docs.remote[bbxId] # docs.total
        deleteRaises == hasChanged /\ fault = "delete"
        needsCreate == bbxId = 0 \/ ~found \/ hasChanged
        before == [docs EXCEPT !.kind = kind,
                               !.stored = IF bbxId # 0 /\ ~found THEN 0 ELSE @,
                               !.remote = IF hasChanged
                                          THEN [@ EXCEPT ![bbxId] = 0] ELSE @]
        resultBbxId == docs.made + 1
        created == [before EXCEPT !.remote[resultBbxId] = docs.total, !.made = resultBbxId]
    IN  /\ docs.kind \in {"none", kind}
        /\ docs.made < MaxDocObjects
        /\ docs' =
             IF getRaises \/ clearRaises \/ deleteRaises
             THEN [docs EXCEPT !.kind = kind, !.last = [fault |-> fault, raised |-> TRUE]]
             ELSE IF ~needsCreate
             THEN [docs EXCEPT !.kind = kind, !.last = [fault |-> fault, raised |-> FALSE]]
             ELSE IF fault = "create"
             THEN [before EXCEPT !.last = [fault |-> fault, raised |-> TRUE]]
             ELSE IF fault = "writeback"
             THEN [created EXCEPT !.last = [fault |-> fault, raised |-> TRUE]]
             ELSE [created EXCEPT !.stored = resultBbxId,
                                  !.last = [fault |-> fault, raised |-> FALSE]]

\* the document is edited: its total changes
EditDocument(total) ==
    /\ docs.total # total
    /\ docs' = [docs EXCEPT !.total = total]

\* the remote object the record points at is deleted on the remote platform
RemoteDrop ==
    /\ docs.stored # 0
    /\ docs.remote[docs.stored] # 0
    /\ docs' = [docs EXCEPT !.remote[docs.stored] = 0]

DocNext ==
    \/ UNCHANGED <<qvars, cvars, svars, xvars, tvars, cls, full, alloc, cx, emc, drain2, rtok>> /\
          \E kind \in {"invoice", "creditNote"}, fault \in DocFaults : SyncDocument(kind, fault)
    \/ UNCHANGED <<qvars, cvars, svars, xvars, tvars, cls, full, alloc, cx, emc, drain2, rtok>> /\
          \E total \in DocTotals : EditDocument(total)
    \/ UNCHANGED <<qvars, cvars, svars, xvars, tvars, cls, full, alloc, cx, emc, drain2, rtok>> /\
          RemoteDrop

\* two invocations of the queue processor at once
OverlapNext ==
    \/ UNCHANGED <<cvars, svars, xvars, tvars, evars>> /\
          \E r \in NsIds : EnqueueSync("customer", r, "update")
    \/ UNCHANGED <<cvars, svars, xvars, tvars, evars>> /\ DrainStart
    \/ UNCHANGED <<cvars, svars, xvars, tvars, evars>> /\ DrainStop
    \/ UNCHANGED <<cvars, svars, xvars, tvars, evars>> /\ DrainFinish
    \/ UNCHANGED <<cvars, svars, xvars, tvars, evars>> /\ DrainMark
    \/ UNCHANGED <<cvars, svars, xvars, tvars, evars>> /\
          dpc = "loop" /\ idx <= Len(entries) /\ Cur.id \notin QueueIds /\ DrainMarkRaises
    \/ UNCHANGED <<cvars, svars, xvars, tvars, evars>> /\ DrainDispatchOk
    \/ UNCHANGED <<cvars, svars, xvars, tvars, evars>> /\
          dpc = "dispatch" /\ Cur.id \in QueueIds /\ DrainDispatchFail
    \/ UNCHANGED <<cvars, svars, xvars, tvars, evars>> /\
          dpc = "dispatch" /\ Cur.id \notin QueueIds /\ DrainUpdateRaises
    \/ UNCHANGED <<cvars, svars, xvars, tvars, cls, full, alloc, cx, emc, rtok, docs>> /\
          SecondDrain

\* the queue processor against storage whose writes can raise
StorageNext ==
    \/ Next
    \/ UNCHANGED <<cvars, svars, xvars, tvars, evars>> /\ DrainMarkRaises
    \/ UNCHANGED <<cvars, svars, xvars, tvars, evars>> /\ DrainUpdateRaises

\* the record types that the user-event scripts enqueue deletes of, and the
\* remote identifiers they pass
EveryDeleteKind == {"customer", "contact", "invoice", "creditmemo"}
DeletedBbxIds == {"b1", "b2"}
DeletedAccountIds == {"acc1", "acc2"}

\* the client call that the delete function of a dispatch makes
RemoteDelete(call) == [endpoint |-> DeleteCall(call.fn), target |-> call.arg]

\* deletes of every record type are queued and drained
DeleteNext ==
    \/ UNCHANGED <<cvars, svars, xvars, tvars, evars>> /\
          \E k \in EveryDeleteKind, b \in DeletedBbxIds, a \in DeletedAccountIds :
                EnqueueDelete(k, b, a)
    \/ UNCHANGED <<cvars, svars, xvars, tvars, evars>> /\ DrainStart
    \/ UNCHANGED <<cvars, svars, xvars, tvars, evars>> /\ DrainStop
    \/ UNCHANGED <<cvars, svars, xvars, tvars, evars>> /\ DrainFinish
    \/ UNCHANGED <<cvars, svars, xvars, tvars, evars>> /\ DrainMark
    \/ UNCHANGED <<cvars, svars, xvars, tvars, evars>> /\ DrainDispatchOk
    \/ UNCHANGED <<cvars, svars, xvars, tvars, evars>> /\ DrainDispatchFail

Spec == Init /\ [][Next]_vars

ClientStart == ClientInit /\ QueueInit /\ SyncIdle /\ EnqIdle /\ TrigIdle /\ RestIdle

ClientSpec == ClientStart /\ [][ClientNext]_vars

SyncStart == SyncInit /\ QueueInit /\ ClientIdle /\ EnqIdle /\ TrigIdle /\ RestIdle

SyncSpec == SyncStart /\ [][SyncNext]_vars

PaySpec == SyncStart /\ [][PayNext]_vars

RaceSpec == Init /\ [][RaceNext]_vars

TriggerSpec == Init /\ [][TriggerNext]_vars

DiffSpec == Init /\ [][DiffNext]_vars

FullSpec == Init /\ [][FullNext]_vars

AllocSpec == Init /\ [][AllocNext]_vars

OverlapSpec == Init /\ [][OverlapNext]_vars

RefreshSpec == Init /\ [][RefreshNext]_vars

DocSpec == Init /\ [][DocNext]_vars

StorageSpec == Init /\ [][StorageNext]_vars

RecSpec == Init /\ [][RecNext]_vars

DeleteSpec == Init /\ [][DeleteNext]_vars

ConnSpec == Init /\ [][ConnNext]_vars

RetryLiveSpec == Init /\ [][RetryNext]_vars /\ RetryFairness

\* the scheduled deployment keeps starting the queue processor and a started
\* run keeps going: every step of it that can be taken is taken
DrainFairness ==
    /\ WF_qvars(DrainStart)
    /\ WF_qvars(DrainMark)
    /\ WF_qvars(DrainDispatchOk \/ DrainDispatchFail)
    /\ WF_qvars(DrainStop)
    /\ WF_qvars(DrainFinish)

LiveSpec == Spec /\ DrainFairness

-----------------------------------------------------------------------------
(* The queue's claims *)

EntriesFor(rtype, rid) ==
    {q \in QueueIds : queue[q].rtype = rtype /\ queue[q].rid = rid}

\* C1: after two successive enqueueSync calls for one (recordType, recordId)
\* with different actions, the processor idle throughout, the queue holds
\* exactly one entry for the pair and it carries the second call's action.
C1_OneEntryLatestAction ==
    twice =>
        /\ Cardinality(EntriesFor(lastAct.rtype, lastAct.rid)) = 1
        /\ \A q \in EntriesFor(lastAct.rtype, lastAct.rid) :
              queue[q].action = lastAct.action

\* C11: in every reachable state the queue holds at most one entry in status
\* pending or processing for any (recordType, recordId) pair.
C11_AtMostOneNonTerminal ==
    \A q1 \in QueueIds, q2 \in QueueIds :
        ( /\ queue[q1].rtype = queue[q2].rtype
          /\ queue[q1].rid = queue[q2].rid
          /\ queue[q1].status \in {"pending", "processing"}
          /\ queue[q2].status \in {"pending", "processing"} )
        => q1 = q2

\* C12: when two enqueueSync calls for one (recordType, recordId) have run in
\* two invocations, one making its existence query while the other was between
\* its query and its save, the queue does not hold two entries for the pair.
C12_RaceLeavesOneEntry ==
    ( /\ \A p \in Invocations : enq[p].pc = "done"
      /\ enq[1].rtype = enq[2].rtype
      /\ enq[1].rid = enq[2].rid
      /\ \E p \in Invocations : enq[p].overlap )
    => Cardinality(EntriesFor(enq[1].rtype, enq[1].rid)) <= 1

\* C13: with the queue processor invoked again and again, every entry that is
\* pending or processing is eventually deleted or eventually in status failed.
C13_EventuallySettled ==
    \A q \in 1..MaxQueueId :
        (q \in QueueIds /\ queue[q].status \in {"pending", "processing"})
        ~> (q \notin QueueIds \/ queue[q].status = "failed")

\* C2: an entry that has failed 5 times has retry count 5, is in status
\* failed when the fifth failure is written, and is never selected or
\* dispatched afterwards; one that has failed 4 times has retry count 4 and is
\* pending (or processing, while its fifth dispatch runs).
C2_RetryCeiling ==
    \A q \in QueueIds :
        /\ fails[q] >= MAX_RETRIES =>
              /\ fails[q] = MAX_RETRIES
              /\ queue[q].retry = MAX_RETRIES
              /\ ~Selected(q)
              /\ queue[q].status # "processing"
              /\ \A i \in idx..Len(entries) : entries[i].id # q
              /\ (lastAct.op = "dispatchFail" /\ lastAct.id = q)
                    => queue[q].status = "failed"
        /\ fails[q] = MAX_RETRIES - 1 =>
              /\ queue[q].retry = MAX_RETRIES - 1
              /\ queue[q].status \in {"pending", "processing"}
              /\ queue[q].status = "processing" => (dpc = "dispatch" /\ Cur.id = q)

\* a later run has started and has not taken the entry that failed 5 times
C2_Witness ==
    /\ dpc = "loop"
    /\ \E q \in QueueIds :
          /\ fails[q] = MAX_RETRIES
          /\ queue[q].status = "failed"
          /\ \A i \in 1..Len(entries) : entries[i].id # q

\* C9: an entry is in status processing while it is dispatched; after a
\* successful dispatch its record is gone; after a failed one its retry count
\* is one more than before (the number of its failures), its status is pending
\* below 5 and failed at 5, and the error text, cut to 4000 characters, is
\* stored on it.
C9_DrainTransitions ==
    /\ dpc = "dispatch" =>
          (Cur.id \in QueueIds /\ queue[Cur.id].status = "processing")
    /\ lastAct.op = "dispatchOk" => lastAct.id \notin QueueIds
    /\ lastAct.op = "dispatchFail" =>
          /\ lastAct.id \in QueueIds
          /\ queue[lastAct.id].retry = fails[lastAct.id]
          /\ queue[lastAct.id].status =
                (IF fails[lastAct.id] < 5 THEN "pending" ELSE "failed")
          /\ queue[lastAct.id].err.name = lastAct.raised.name
          /\ queue[lastAct.id].err.len =
                (IF lastAct.raised.len > 4000 THEN 4000 ELSE lastAct.raised.len)

\* a dispatch has failed for the third time and its long error text was cut
C9_Witness ==
    /\ lastAct.op = "dispatchFail"
    /\ fails[lastAct.id] = 3
    /\ queue[lastAct.id].status = "pending"
    /\ lastAct.raised.len > 4000
    /\ queue[lastAct.id].err.len = 4000

\* C10: when the remaining usage is below 500 at the head of the loop with
\* rows left, the only step the processor takes is to stop, and that step
\* changes no queue record: every row not yet started is still selectable
\* by the next run.
C10_StopLeavesRest ==
    [][(/\ dpc = "loop"
        /\ idx <= Len(entries)
        /\ usage < 500
        /\ dpc' # dpc)
       => (/\ dpc' = "idle"
           /\ queue' = queue
           /\ \A i \in idx..Len(entries) :
                 /\ entries[i].id \in QueueIds
                 /\ queue[entries[i].id].status \in {"pending", "failed"}
                 /\ queue[entries[i].id].retry = entries[i].retry)]_vars

\* the run stopped after its first entry with one row left, still pending
C10_Witness ==
    /\ lastAct.op = "drainStop"
    /\ lastAct.started >= 1
    /\ lastAct.left >= 1
    /\ \E q \in QueueIds : queue[q].status = "pending"


-----------------------------------------------------------------------------
(* The API client's claims, checked under ClientSpec *)

\* a step in which the running request's HTTP call is answered with code c
Answered(c) ==
    /\ rpc = "send"
    /\ hist'.calls = hist.calls + 1
    /\ resp'.code = c

\* what a 429 with this header asks the client to wait, in seconds: the
\* header's number, or 60 when the header is missing or gives no number but 0
AskedWait(h) == IF h.present /\ h.value # 0 THEN h.value ELSE 60

(* C5: when a request starts while the cached token fails the validity check
   (expiry minus 5 minutes not after now), the client reloads the connection
   once and re-checks; if the reloaded token fails too, the request ends with
   TokenExpired and no HTTP call was made for it; otherwise the call goes out
   with the reloaded token. *)
C5_StaleTokenAtStart ==
    /\ [][ ( /\ rpc \in {"idle", "done"}
             /\ clock' = clock
             /\ stored' = stored
             /\ ~(cached.exp - 5 * 60 > clock) )
           => /\ hist'.reloads = 1
              /\ cached' = stored
              /\ hist'.calls = 0
              /\ IF stored.exp - 5 * 60 > clock
                 THEN rpc' = "send" /\ passTok' = stored.tok /\ outcome'.kind = "none"
                 ELSE rpc' = "done" /\ outcome' = [kind |-> "TokenExpired", by |-> "client"]
         ]_vars
    /\ []( (outcome.kind = "TokenExpired" /\ outcome.by = "client")
             => (hist.calls = 0 /\ rpc = "done") )

\* C5 witness: a request started on a stale cached token, reloaded once, found
\* the stored token stale too and ended with TokenExpired before any HTTP call.
C5_Witness ==
    /\ rpc = "done"
    /\ outcome = [kind |-> "TokenExpired", by |-> "client"]
    /\ hist.reloads = 1
    /\ hist.calls = 0
    /\ ~(hist.cachedExp0 - 5 * 60 > hist.clock0)
    /\ ~(hist.storedExp0 - 5 * 60 > hist.clock0)

(* C6 as stated: the first 401 of a request is always followed by a reload and
   a re-issue with the reloaded token; a 401 after the re-issue ends the
   request with TokenExpired. *)
C6_AlwaysReissued ==
    [][ Answered(401)
        => IF hist.reissues = 0
           THEN /\ cached' = stored
                /\ rpc' = "send"
                /\ passTok' = stored.tok
                /\ hist'.reissues = 1
           ELSE /\ rpc' = "done"
                /\ outcome'.kind = "TokenExpired"
      ]_vars

(* C6 amended: the first 401 of a request makes the client reload the
   connection once; if the reloaded token passes the validity check the request
   is re-issued with it, otherwise the request ends with TokenExpired at once.
   A 401 after the re-issue ends the request with TokenExpired without another
   reload.  A request is re-issued because of a 401 at most once. *)
C6_ReissueOnceIfValid ==
    /\ [][ Answered(401)
           => IF hist.reissues = 0
              THEN /\ cached' = stored
                   /\ hist'.reloads = hist.reloads + 1
                   /\ IF stored.exp - 5 * 60 > clock
                      THEN /\ rpc' = "send"
                           /\ passTok' = stored.tok
                           /\ hist'.reissues = 1
                           /\ outcome'.kind = "none"
                      ELSE /\ rpc' = "done"
                           /\ hist'.reissues = 0
                           /\ outcome' = [kind |-> "TokenExpired", by |-> "server"]
              ELSE /\ rpc' = "done"
                   /\ cached' = cached
                   /\ hist'.reloads = hist.reloads
                   /\ outcome' = [kind |-> "TokenExpired", by |-> "server"]
         ]_vars
    /\ [](hist.reissues <= 1)

\* C6 witness: a request was answered 401, was re-issued with the token the
\* refresh had stored meanwhile, was answered 401 again and ended TokenExpired.
C6_Witness ==
    /\ rpc = "done"
    /\ outcome = [kind |-> "TokenExpired", by |-> "server"]
    /\ hist.io401 = "second"
    /\ hist.reissues = 1
    /\ passTok = 2

(* C7 as stated: a 429 is retried after a wait of at least the asked time while
   the request has made fewer than 3 retries; once 3 retries are used up, a
   further 429 ends the request with RateLimited. *)
C7_ThreeRetriesPerRequest ==
    [][ Answered(429)
        => IF hist.retries < 3
           THEN /\ rpc' = "send"
                /\ hist'.retries = hist.retries + 1
                /\ clock' - clock >= AskedWait(resp'.header)
           ELSE /\ rpc' = "done"
                /\ outcome' = [kind |-> "RateLimited",
                               retryAfter |-> AskedWait(resp'.header)]
      ]_vars

(* C7 amended: retries are counted per pass, and the count starts again when the
   request is re-issued after a 401.  A 429 in a pass that has made fewer than 3
   retries is retried after a wait of at least the asked time (the header's
   number; 60 seconds when the header is missing or gives 0); a 429 in a pass
   that has used 3 retries ends the request with RateLimited carrying that
   time.  A request makes at most 3 retries, or 6 when it was re-issued. *)
C7_ThreeRetriesPerPass ==
    /\ [][ Answered(429)
           => IF attempt < 3
              THEN /\ rpc' = "send"
                   /\ attempt' = attempt + 1
                   /\ hist'.retries = hist.retries + 1
                   /\ clock' - clock >= AskedWait(resp'.header)
                   /\ clock' - clock >= 1
                   /\ outcome'.kind = "none"
              ELSE /\ rpc' = "done"
                   /\ clock' = clock
                   /\ outcome' = [kind |-> "RateLimited",
                                  retryAfter |-> AskedWait(resp'.header)]
         ]_vars
    /\ [][ (Answered(401) /\ rpc' = "send") => attempt' = 0 ]_vars
    /\ [](attempt <= 3 /\ hist.retries <= 3 * (1 + hist.reissues))

\* C7 witness: a request that used retries, was re-issued after a 401, used 3
\* more retries and ended RateLimited on a 429 without a Retry-After header.
C7_Witness ==
    /\ rpc = "done"
    /\ outcome = [kind |-> "RateLimited", retryAfter |-> 60]
    /\ ~resp.header.present
    /\ hist.reissues = 1
    /\ hist.retries > 3

(* C8: a response with a status of 400 or more other than 401 and 429 ends the
   request at once with ApiError carrying the status, the message of the parsed
   body when it has one and the generic text otherwise, and the parsed body, or
   null when the body does not parse; no further HTTP call is made. *)
C8_ApiErrorNoRetry ==
    (resp.code >= 400 /\ resp.code \notin {401, 429})
    => /\ rpc = "done"
       /\ outcome.kind = "ApiError"
       /\ outcome.status = resp.code
       /\ outcome.message = IF resp.body = "message" THEN <<"message of body">>
                            ELSE <<"API Error", resp.code>>
       /\ outcome.body = CASE resp.body = "empty"     -> "{}"
                           [] resp.body = "message"   -> "{message}"
                           [] resp.body = "nomessage" -> "{other}"
                           [] OTHER                   -> "null"

\* C8 witness: a 500 after two retried 429s ended the request with ApiError
\* carrying the message of its body.
C8_Witness ==
    /\ rpc = "done"
    /\ resp = [code |-> 500, body |-> "message"]
    /\ outcome.kind = "ApiError"
    /\ outcome.message = <<"message of body">>
    /\ hist.retries = 2
    /\ hist.calls = 3


-----------------------------------------------------------------------------
(* The synchronizers' claims, checked under SyncSpec *)

\* the remote write calls among the calls of a run
Writes(calls) ==
    calls["accounts.create"] + calls["accounts.update"] + calls["contacts.upsert"]
    + calls["invoices.create"] + calls["invoices.delete"]
    + calls["invoices.updatePaidAmount"]
    + calls["creditNotes.create"] + calls["creditNotes.delete"]

\* the calls of a run in which only the named call was made, once
Only(name) == [NoCalls EXCEPT ![name] = 1]

(* C3 as stated: for every kind, a run of its synchronizer that directly
   follows a successful run of it, with no local change in between, makes no
   remote write call. *)
C3_NoWritesOnSecondRun ==
    run.second => Writes(run.calls) = 0

(* C3 amended: a run of the invoice or credit-note synchronizer that follows a
   successful run of it, with no local change of the entity, no change of the
   customer's stored remote identifier and no change on the remote platform in
   between, makes one get call and no remote write call.  Such a run of the
   account synchronizer makes exactly one call, an update, and such a run of
   the contact synchronizer exactly one call, an upsert. *)
C3_SecondRunCalls ==
    run.second
    => CASE run.kind = "invoice"    -> run.calls = Only("invoices.get")
         [] run.kind = "creditNote" -> run.calls = Only("creditNotes.get")
         [] run.kind = "account"    -> run.calls = Only("accounts.update")
         [] run.kind = "contact"    -> run.calls = Only("contacts.upsert")

\* C3 witness: a second run on a partly paid invoice succeeded with its one
\* get call.
C3_Witness ==
    /\ run.second
    /\ run.kind = "invoice"
    /\ run.ok
    /\ run.calls = Only("invoices.get")
    /\ inv.remaining = 40
    /\ inv.bbxId # 0

\* the create call of a kind
CreateCall(kind) ==
    CASE kind = "account"    -> "accounts.create"
      [] kind = "invoice"    -> "invoices.create"
      [] kind = "creditNote" -> "creditNotes.create"
      [] kind = "contact"    -> "contacts.upsert"

(* C4 as stated: a run that was answered 404 for the stored identifier and
   succeeded has made exactly one create call and no update call, and has
   stored a new identifier that exists remotely. *)
C4_OneCreateNoUpdate ==
    (run.got404 /\ run.ok)
    => /\ run.calls[CreateCall(run.kind)] = 1
       /\ run.calls["accounts.update"] = 0
       /\ StoredId(run.kind) \notin {0, run.oldId}
       /\ Live(World, StoredId(run.kind), run.kind)

(* C4 amended: a run of the account, invoice or credit-note synchronizer that
   is answered 404 for the stored identifier clears it and makes exactly one
   create call for the entity; when that call succeeds the new identifier is
   stored and exists remotely, and when it fails the stored identifier stays
   empty.  For an invoice or a credit note the 404 answers the one get call and
   no update, delete or paid-amount call is made; the only other call such a
   run can make is the create of the account, before the get, when the customer
   has no stored identifier.  For an account the 404 answers its one update
   call, so exactly one update call is made. *)
C4_OrphanHealed ==
    run.got404
    => /\ run.kind \in {"account", "invoice", "creditNote"}
       /\ IF run.ok
          THEN /\ StoredId(run.kind) \notin {0, run.oldId}
               /\ Live(World, StoredId(run.kind), run.kind)
          ELSE StoredId(run.kind) = 0
       /\ CASE run.kind = "account" ->
                 run.calls = [NoCalls EXCEPT !["accounts.update"] = 1,
                                             !["accounts.create"] = 1]
            [] run.kind = "invoice" ->
                 \E a \in {0, 1} :
                    run.calls = [NoCalls EXCEPT !["accounts.create"] = a,
                                                !["invoices.get"] = 1,
                                                !["invoices.create"] = 1]
            [] run.kind = "creditNote" ->
                 \E a \in {0, 1} :
                    run.calls = [NoCalls EXCEPT !["accounts.create"] = a,
                                                !["creditNotes.get"] = 1,
                                                !["creditNotes.create"] = 1]
            [] OTHER -> FALSE

\* C4 witness: the account synchronizer was answered 404 by its update call,
\* made one create call and stored the new identifier.
C4_Witness ==
    /\ run.got404
    /\ run.ok
    /\ run.kind = "account"
    /\ run.oldId # 0
    /\ cust.bbxId \notin {0, run.oldId}
    /\ remote[cust.bbxId].kind = "account"
    /\ run.calls["accounts.update"] = 1
    /\ run.calls["accounts.create"] = 1

-----------------------------------------------------------------------------
(* The triggers' claims, checked under TriggerSpec *)

\* the run had a remote call fail, other than a delete answered 404
Failed(t) ==
    /\ t.kind # "none"
    /\ t.hit
    /\ ~(t.fault.fn \in DeleteFns /\ t.fault.err.status = 404)

\* the record types under which the entity of a trigger is queued
QueuedTypes(kind) ==
    CASE kind = "fullsync"        -> {"customer"}
      [] kind = "customerpayment" -> {"customerpayment", "invoice"}
      [] OTHER                    -> {kind}

\* C14: whenever a synchronization started by a record trigger or by the map
\* stage of the full sync fails, a queue entry for the triggering entity exists
\* afterwards.
C14_FailureQueued ==
    Failed(trig) => \E q \in QueueIds : queue[q].rtype \in QueuedTypes(trig.kind)

\* C15: when a remote call made inside any synchronizer, payment-effect sync
\* and credit-allocation sync included, fails with TokenExpired, the error
\* surfaces to the synchronizer's caller and the triggering entity is queued.
C15_TokenExpiredSurfaces ==
    (trig.kind # "none" /\ trig.hit /\ trig.fault.err = TokenExpired)
        => /\ trig.raised
           /\ \E q \in QueueIds : queue[q].rtype \in QueuedTypes(trig.kind)

\* C16: deleting a local Account (one that holds a remote identifier) issues
\* exactly one remote delete call, for the account, and none for its contacts,
\* invoices or credit notes; deleting a Contact whose parent Account no longer
\* exists locally calls no synchronizer function and issues no remote call.
C16_DeleteCascade ==
    /\ (trig.kind = "customer" /\ trig.type = "delete" /\ trig.linked)
          => trig.fns = <<"deleteAccount">> /\ trig.delCalls = <<"accounts.delete">>
    /\ (trig.kind = "contact" /\ trig.type = "delete" /\ trig.parent = "gone")
          => trig.fns = <<>> /\ trig.delCalls = <<>>

\* a customer holding a remote identifier was deleted and the call succeeded
C16_Witness ==
    /\ trig.kind = "customer" /\ trig.type = "delete" /\ trig.linked
    /\ trig.fault = NoFault
    /\ trig.delCalls = <<"accounts.delete">>

\* C17: a delete of an account, contact, invoice or credit note that the remote
\* answers with 404, whatever message the response body carries, is treated as
\* success: the delete function returns without raising.
C17_AbsentDeleteSucceeds ==
    (/\ trig.kind # "none"
     /\ trig.hit
     /\ trig.fault.fn \in DeleteFns
     /\ trig.fault.err.status = 404)
        => ~trig.raised

-----------------------------------------------------------------------------
(* The parent account of a contact, invoice or credit note, checked under
   SyncSpec *)

Children == {"contact", "invoice", "creditNote"}

\* C18: the contact, invoice and credit-note synchronizers never issue their
\* own create or upsert call before the parent account is linked: the call is
\* made under the identifier the customer record holds at that moment, and
\* when the customer held none at the start of the run the account was
\* synchronized first (one accounts.create) and the identifier it returned,
\* now stored on the customer, is the one used.
C18_ParentLinkedFirst ==
    (run.kind \in Children /\ run.calls[CreateCall(run.kind)] > 0)
        => /\ run.parent.stored # 0
           /\ run.parent.id = run.parent.stored
           /\ run.had = 0 => /\ run.calls["accounts.create"] = 1
                             /\ run.calls["accounts.update"] = 0
                             /\ run.parent.id = cust.bbxId
                             /\ remote[cust.bbxId].kind = "account"

\* a child was created by a run that found the customer without identifier
C18_Witness ==
    /\ run.kind \in Children
    /\ run.ok
    /\ run.had = 0
    /\ run.calls[CreateCall(run.kind)] = 1
    /\ run.parent.id = cust.bbxId

-----------------------------------------------------------------------------
(* Payment-effect sync, checked under PaySpec *)

\* the invoice held a remote identifier when the payment run started
InvoiceWasLinked == IF run.paidAnswer = 404 THEN run.oldId # 0 ELSE inv.bbxId # 0

\* C19: for the invoice applied by a payment (one that holds a remote
\* identifier), payment-effect sync calls the paid-amount endpoint once with
\* paidAmount equal to the invoice's total minus its amountRemaining; total 100
\* and amountRemaining 40 give 60.  An accepted call leaves that amount on the
\* remote invoice.
C19_PaidAmount ==
    run.kind = "payment"
    => /\ run.calls["invoices.updatePaidAmount"] = IF InvoiceWasLinked THEN 1 ELSE 0
       /\ InvoiceWasLinked => run.paidArg = inv.total - inv.remaining
       /\ (InvoiceWasLinked /\ inv.total = 100 /\ inv.remaining = 40) => run.paidArg = 60
       /\ run.paidAnswer = 200
          => /\ Live(World, inv.bbxId, "invoice")
             /\ remote[inv.bbxId].paid = inv.total - inv.remaining

\* a payment run sent 60 for an invoice of total 100 with 40 remaining
C19_Witness ==
    /\ run.kind = "payment"
    /\ inv.total = 100 /\ inv.remaining = 40
    /\ run.calls["invoices.updatePaidAmount"] = 1
    /\ run.paidArg = 60
    /\ run.paidAnswer = 200
    /\ Live(World, inv.bbxId, "invoice")
    /\ remote[inv.bbxId].paid = 60

(* C20 as stated: when the paid-amount call for an invoice answers 404 during
   payment-effect sync, a full synchronization of that invoice is run, after
   which the invoice has a new remote identifier stored locally. *)
C20_ResyncStoresNewId ==
    (run.kind = "payment" /\ run.paidAnswer = 404)
    => /\ run.resync # "none"
       /\ inv.bbxId \notin {0, run.oldId}
       /\ Live(World, inv.bbxId, "invoice")

(* C20 amended: when the paid-amount call for an invoice answers 404 during
   payment-effect sync, a full synchronization of that invoice is run instead
   of a bare clearing of the identifier: its get call is made, after the
   account has been created when the customer holds no identifier.  When that
   synchronization succeeds the invoice has been created again, with the paid
   amount, and its new identifier is stored locally; when it fails the failure
   is logged and not raised, and the invoice holds no identifier, or still the
   stale one when the failure came before the identifier was cleared. *)
C20_ResyncAfter404 ==
    (run.kind = "payment" /\ run.paidAnswer = 404)
    => /\ run.resync \in {"ok", "failed"}
       /\ run.ok
       /\ run.calls["invoices.updatePaidAmount"] = 1
       /\ \/ run.calls["invoices.get"] = 1
          \/ /\ run.calls["invoices.get"] = 0
             /\ run.had = 0
             /\ run.calls["accounts.create"] = 1
             /\ run.resync = "failed"
             /\ cust.bbxId = 0
       /\ run.resync = "ok"
          => /\ run.calls["invoices.create"] = 1
             /\ inv.bbxId \notin {0, run.oldId}
             /\ Live(World, inv.bbxId, "invoice")
             /\ remote[inv.bbxId].paid = inv.total - inv.remaining
       /\ run.resync = "failed"
          => /\ inv.bbxId \in {0, run.oldId}
             /\ inv.bbxId = 0 <=> run.calls["invoices.create"] = 1

\* the paid-amount call was answered 404 and the invoice was created again
C20_Witness ==
    /\ run.kind = "payment"
    /\ run.paidAnswer = 404
    /\ run.resync = "ok"
    /\ run.oldId # 0
    /\ inv.bbxId \notin {0, run.oldId}
    /\ remote[inv.bbxId].kind = "invoice"

-----------------------------------------------------------------------------
(* Change detection, checked under DiffSpec *)

\* two dates are the same day: both absent, or both present with the same
\* year, month and day
SameDay(bbxDate, nsDate) ==
    \/ bbxDate = NoDate /\ nsDate = NsNoDate
    \/ /\ bbxDate # NoDate /\ nsDate # NsNoDate
       /\ <<bbxDate.year, bbxDate.month, bbxDate.day>>
             = <<nsDate.year, nsDate.month, nsDate.day>>

CreditNoteSame(b, n) ==
    /\ b.number = n.tranId
    /\ b.totalAmount = n.total
    /\ b.taxAmount = n.taxTotal
    /\ SameDay(b.issuedDate, n.tranDate)

\* C21: a credit note whose number, total amount, tax amount and issued date
\* all equal the remote snapshot is classified unchanged and skipped (no
\* delete, no create); if any one of the four differs it is classified changed
\* and the remote credit note is deleted and created again.
C21_CreditNoteClassified ==
    cls.kind = "creditNote"
    => IF CreditNoteSame(cls.bbx, cls.ns)
       THEN ~cls.hasChanged /\ cls.calls = <<>>
       ELSE cls.hasChanged /\ cls.calls = <<"creditNotes.delete", "creditNotes.create">>

\* a credit note that differs from its snapshot in the tax amount only
C21_Witness ==
    /\ cls.kind = "creditNote"
    /\ cls.bbx.number = cls.ns.tranId
    /\ cls.bbx.totalAmount = cls.ns.total
    /\ SameDay(cls.bbx.issuedDate, cls.ns.tranDate)
    /\ cls.ns.tranDate.hour = 23
    /\ cls.bbx.taxAmount # cls.ns.taxTotal
    /\ cls.calls = <<"creditNotes.delete", "creditNotes.create">>

\* a purchase-order reference that is absent is the same as an empty one
SameReference(bbxPo, nsPo) ==
    \/ bbxPo = nsPo
    \/ bbxPo \in {"null", ""} /\ nsPo \in {"null", ""}

InvoiceSame(b, n) ==
    /\ b.number = n.tranId
    /\ b.totalAmount = n.total
    /\ b.taxAmount = n.taxTotal
    /\ SameDay(b.issuedDate, n.tranDate)
    /\ SameDay(b.dueDate, n.dueDate)
    /\ SameReference(b.poNumber, n.poNumber)

\* C22: an invoice is classified changed exactly when its number, total
\* amount, tax amount, issued date, due date or purchase-order reference
\* differs from the remote snapshot, dates compared by year, month and day
\* only; when none of these differ but the paid amount does, only the
\* paid-amount endpoint is called.
C22_InvoiceClassified ==
    cls.kind = "invoice"
    => /\ cls.hasChanged <=> ~InvoiceSame(cls.bbx, cls.ns)
       /\ ~InvoiceSame(cls.bbx, cls.ns)
          => cls.calls = <<"invoices.delete", "invoices.create">>
       /\ (InvoiceSame(cls.bbx, cls.ns) /\ cls.bbx.paidAmount # cls.ns.paidAmount)
          => cls.calls = <<"invoices.updatePaidAmount">>
       /\ (InvoiceSame(cls.bbx, cls.ns) /\ cls.bbx.paidAmount = cls.ns.paidAmount)
          => cls.calls = <<>>

\* an invoice dated late on the day of its snapshot, with another paid amount
C22_Witness ==
    /\ cls.kind = "invoice"
    /\ InvoiceSame(cls.bbx, cls.ns)
    /\ cls.ns.tranDate.hour = 23
    /\ cls.ns.dueDate.hour = 23
    /\ cls.bbx.poNumber = "null"
    /\ cls.bbx.paidAmount # cls.ns.paidAmount
    /\ cls.calls = <<"invoices.updatePaidAmount">>

-----------------------------------------------------------------------------
(* Claims about full-account synchronization *)

\* the place of a function among the steps of syncFullAccount
StepRank(fn) == CHOOSE i \in 1..Len(FullSteps) : FullSteps[i] = fn

\* the calls of one function that a run attempted, as the set of their items
Attempted(fn) == {full.attempts[i].id : i \in {j \in 1..Len(full.attempts) : full.attempts[j].fn = fn}}

\* C23: once the account is synchronized, syncFullAccount attempts its steps
\* in the order account, contacts, email-derived contacts, open invoices,
\* credit notes, credit allocations, and whichever contact, invoice, credit
\* note or allocation calls fail, every row of every query that answered is
\* still attempted, each once, and the email-derived contacts always are.
C23_FullAccountOrder ==
    (full # NoFull /\ ~full.raised) =>
        /\ full.attempts[1].fn = "syncAccount"
        /\ \A i \in 1..Len(full.attempts), j \in 1..Len(full.attempts) :
              i < j => /\ StepRank(full.attempts[i].fn) <= StepRank(full.attempts[j].fn)
                       /\ full.attempts[i] # full.attempts[j]
        /\ Attempted("syncCustomerEmailContacts") = {1}
        /\ "contacts" \notin full.qfail => Attempted("syncContact") = 1..full.contacts
        /\ "invoices" \notin full.qfail => Attempted("syncInvoice") = 1..full.invoices
        /\ "creditmemos" \notin full.qfail =>
              /\ Attempted("syncCreditMemo") = 1..full.cms
              /\ Attempted("syncCreditAllocations") = 1..full.cms

\* C23 witness: the first contact and the first credit note failed, and the
\* second contact, both invoices, the second credit note and the allocations
\* were attempted after them.
C23_Witness ==
    /\ full # NoFull /\ ~full.raised /\ full.qfail = {}
    /\ full.fail = {[fn |-> "syncContact", id |-> 1], [fn |-> "syncCreditMemo", id |-> 1]}
    /\ full.contacts = 2 /\ full.invoices = 2 /\ full.cms = 2
    /\ Len(full.attempts) = 10
    /\ full.attempts[2] = [fn |-> "syncContact", id |-> 1, ok |-> FALSE]
    /\ full.attempts[3] = [fn |-> "syncContact", id |-> 2, ok |-> TRUE]
    /\ full.attempts[10] = [fn |-> "syncCreditAllocations", id |-> 2, ok |-> TRUE]

-----------------------------------------------------------------------------
(* Claims about credit allocations *)

\* the places in the last call's record that belong to line i
DoneFor(i) == {k \in 1..Len(alloc.done) : alloc.done[k].line = i}

\* line i got one allocation-apply call, for the credit note, the invoice's
\* remote identifier and the line's amount, and its outcome was logged
AppliedOnce(i) ==
    /\ Cardinality(DoneFor(i)) = 1
    /\ \A k \in DoneFor(i) :
          /\ alloc.done[k].call = ApplyCall(alloc.cnId, alloc.invBbx[i], alloc.lines[i].amount)
          /\ alloc.done[k].log.status = (IF alloc.answers[i] = 200 THEN "success" ELSE "error")

\* C24 as stated: for each applied line of the credit note, the line is
\* skipped when its invoice has no remote identifier and gets the
\* allocation-apply call otherwise; an error of the call is logged, the call
\* of syncCreditAllocations does not raise and the other lines are processed.
C24_EveryAppliedLine ==
    (alloc # NoAlloc /\ alloc.last = "syncCreditAllocations") =>
        /\ ~alloc.raised
        /\ \A i \in 1..Len(alloc.lines) :
              alloc.lines[i].apply =>
                 IF alloc.invBbx[i] = 0 THEN DoneFor(i) = {} ELSE AppliedOnce(i)

\* C24 amended: when the credit memo has a remote identifier, for each applied
\* line with a positive amount the line is skipped when the lookup of its
\* invoice yields no remote identifier (there is none, or the lookup raised)
\* and gets one allocation-apply call otherwise; an error of a call is
\* logged, the call of syncCreditAllocations does not raise, and every other
\* line is still processed. Without a remote identifier on the credit memo,
\* and for the other lines, no call is made.
C24_AppliedLines ==
    (alloc # NoAlloc /\ alloc.last = "syncCreditAllocations") =>
        /\ ~alloc.raised
        /\ \A i \in 1..Len(alloc.lines) :
              IF /\ alloc.cnId # 0
                 /\ alloc.lines[i].apply /\ alloc.lines[i].amount > 0
                 /\ alloc.invBbx[i] # 0 /\ alloc.lookups[i] = "ok"
              THEN AppliedOnce(i)
              ELSE DoneFor(i) = {}

\* C24 witness: the call for the first line got a client error, which was
\* logged, and the second line got its call after it.
C24_Witness ==
    /\ alloc # NoAlloc /\ alloc.last = "syncCreditAllocations" /\ alloc.cnId # 0
    /\ Len(alloc.lines) = 2 /\ alloc.answers = <<400, 200>>
    /\ Len(alloc.done) = 2
    /\ alloc.done[1].line = 1 /\ alloc.done[1].log.status = "error"
    /\ alloc.done[2].line = 2 /\ alloc.done[2].log.status = "success"


\* C25: an allocation line that was skipped because its invoice had no remote
\* identifier is retried on invoice sync: once the invoice has been
\* synchronized, the allocation-apply call for the line is eventually issued.
C25_SkippedRetried ==
    \A i \in 1..MaxItems :
        (alloc # NoAlloc /\ i \in alloc.skipped /\ alloc.invBbx[i] # 0)
            ~> (alloc # NoAlloc /\ i \in alloc.issued)

-----------------------------------------------------------------------------
(* Claims about the Connection record *)

\* C26: at any time at most one Connection record exists for the name, over
\* any sequence or interleaving of save calls.
C26_OneRecordPerName == Len(cx.recs) <= 1

\* C27: once a writer's selection of the organization and a rotation of the
\* tokens have both been saved, and no save is under way, the record holds
\* the rotated token and the selected organization.
C27_BothWritesKept ==
    (/\ Len(cx.recs) = 1
     /\ cx.selected # 0 /\ cx.rotated # 0
     /\ \A p \in Procs : cx.obj[p].pc # "saving")
        => /\ cx.recs[1].oauthAccessToken = cx.rotated
           /\ cx.recs[1].organizationId = cx.selected

-----------------------------------------------------------------------------
(* Claims about the operation log *)

\* the entry that a synchronizer call wrote with logOperation for its own
\* outcome: the calls end with logOperation({..., status: 'success'}) and have
\* no catch of their own, and syncInvoice and syncCreditMemo return before it
\* when the remote object is unchanged
OperationLog(r) ==
    LET written ==
            CASE r.kind = "account" -> r.ok
              [] r.kind = "contact" -> r.ok /\ r.calls["contacts.upsert"] > 0
              [] r.kind = "invoice" ->
                    r.ok /\ (r.calls["invoices.create"] > 0
                             \/ r.calls["invoices.updatePaidAmount"] > 0)
              [] r.kind = "creditNote" -> r.ok /\ r.calls["creditNotes.create"] > 0
              [] OTHER -> FALSE
    IN  IF written THEN <<[recordType |-> r.kind, status |-> "success"]>> ELSE <<>>

\* C28: every synchronizer call records an operation-log entry for its
\* outcome, whether the call succeeds or fails.
C28_OutcomeLogged ==
    run.kind \in EntityKinds =>
        \E k \in 1..Len(OperationLog(run)) :
            OperationLog(run)[k].status = (IF run.ok THEN "success" ELSE "error")

-----------------------------------------------------------------------------
(* Claims about the stored identifier after a successful call *)

\* C29: after a synchronizer has returned successfully for a local entity,
\* also after orphan healing and after delete-and-recreate, the entity's
\* stored remote identifier is that of a remote object of its kind that exists.
C29_StoredIdExists ==
    (run.kind \in EntityKinds /\ run.ok) =>
        /\ StoredId(run.kind) \in RemoteIds
        /\ remote[StoredId(run.kind)].kind = run.kind

\* C29 witness: an invoice call that found its remote copy gone, or deleted
\* it because it had changed, created it again and returned.
C29_Witness ==
    /\ run.kind = "invoice" /\ run.ok
    /\ run.got404 \/ run.calls["invoices.delete"] > 0
    /\ run.calls["invoices.create"] > 0
    /\ StoredId("invoice") \in RemoteIds
    /\ remote[StoredId("invoice")].kind = "invoice"

-----------------------------------------------------------------------------
(* Claims about queued deletes *)

\* the remote object that a delete entry names: the remote identifier, or for
\* a contact the account's and the contact's
NamedObject(e) == IF e.rtype = "contact" THEN <<e.rid[2], e.rid[3]>> ELSE e.rid

\* the delete endpoint of a record type
DeleteEndpoint(rtype) ==
    CASE rtype = "customer"   -> "accounts.delete"
      [] rtype = "contact"    -> "contacts.delete"
      [] rtype = "invoice"    -> "invoices.delete"
      [] rtype = "creditmemo" -> "creditNotes.delete"

\* C30: a delete entry written by enqueueDelete stores the remote identifier
\* it was given (for a contact the remote account identifier and then the
\* remote contact identifier), and when drain dispatches the entry the remote
\* delete call is the delete of the entry's record type on exactly that object.
C30_DeleteTargetsStored ==
    /\ [](\A q \in QueueIds :
             queue[q].action = "delete" =>
                IF queue[q].rtype = "contact"
                THEN /\ queue[q].rid[2] \in DeletedAccountIds
                     /\ queue[q].rid[3] \in DeletedBbxIds
                ELSE queue[q].rid \in DeletedBbxIds)
    /\ [][(dpc = "dispatch" /\ lastAct'.op = "dispatchOk" /\ Cur.action = "delete")
            => RemoteDelete(lastAct'.call) =
                  [endpoint |-> DeleteEndpoint(queue[Cur.id].rtype),
                   target |-> NamedObject(queue[Cur.id])]]_vars

\* C30 witness: the delete of contact b2 of account acc1 was queued, and drain
\* called contacts.delete for that account and contact.
C30_Witness ==
    /\ lastAct.op = "dispatchOk"
    /\ lastAct.call.fn = "deleteContact"
    /\ RemoteDelete(lastAct.call) =
          [endpoint |-> "contacts.delete", target |-> <<"acc1", "b2">>]

-----------------------------------------------------------------------------
(* Claims about email-contact reconciliation *)

\* the emails of the local customer and of its local contacts, as they compare
LocalEmails ==
    ({ToLowerCase(Trim(emc.relanceEmail)), ToLowerCase(Trim(emc.customerEmail))}
     \cup {ToLowerCase(Trim(emc.contactEmails[i])) : i \in 1..Len(emc.contactEmails)})
    \ {""}

\* the remote contacts that have an email, and it is not a local one
NotLocal ==
    {i \in 1..Len(emc.bbxContacts) :
        /\ emc.bbxContacts[i] # "null"
        /\ ToLowerCase(emc.bbxContacts[i]) \notin LocalEmails}

\* C31: after a reconciliation in which no remote call failed, the remote
\* contacts that have been deleted are exactly those whose email, compared
\* case-insensitively, is not among the emails of the local customer and its
\* local contacts.
C31_DeletedByEmailDifference ==
    (emc # NoRec /\ emc.fault.call = "none") => emc.deleted = NotLocal

\* C40: when the read of the local contact emails fails, no remote contact is
\* deleted for it: whatever is deleted has an email that is not a local one.
C40_ReadFailureDeletesNothing ==
    (emc # NoRec /\ emc.queryFails) => emc.deleted \subseteq NotLocal

-----------------------------------------------------------------------------
(* Claims about the budget and the batch of a drain *)

\* C32: the drain budget is checked only between queue entries: once an entry
\* has been marked processing, the run leaves it only by the end of its
\* dispatch, success or failure, whatever the budget has become.
C32_BudgetBetweenEntries ==
    [][(dpc = "dispatch" /\ dpc' # "dispatch")
          => /\ lastAct'.op \in {"dispatchOk", "dispatchFail"}
             /\ lastAct'.id = Cur.id
             /\ dpc' = "loop"]_vars

\* C32 witness: a dispatch ran to its end although it took the budget below
\* the floor.
C32_Witness ==
    /\ dpc = "loop"
    /\ lastAct.op = "dispatchOk"
    /\ usage < GovernanceFloor


\* C33: when the dispatch of an entry fails, because its local record has
\* vanished or for any other reason, only that entry is written, and the run
\* goes on with the following entry of the same batch.
C33_FailureKeepsBatch ==
    [][(dpc = "dispatch" /\ lastAct'.op = "dispatchFail" /\ lastAct' # lastAct)
          => /\ dpc' = "loop"
             /\ entries' = entries
             /\ idx' = idx + 1
             /\ DOMAIN queue' = QueueIds
             /\ \A q \in QueueIds \ {Cur.id} : queue'[q] = queue[q]]_vars

\* C33 witness: the first entry of a batch failed with an "Error" and the
\* second entry of the batch has been marked processing after it.
C33_Witness ==
    /\ dpc = "dispatch" /\ idx = 2
    /\ entries[1].id \in QueueIds
    /\ queue[entries[1].id].retry = entries[1].retry + 1
    /\ queue[entries[1].id].err.name = "Error"
    /\ queue[Cur.id].status = "processing"


\* C34: when a drain invocation has returned, no queue entry that it marked
\* processing is still in processing status, also when the status write that
\* follows a failed dispatch itself raises.
C34_NoneLeftProcessing ==
    dpc = "idle" => \A q \in QueueIds : queue[q].status # "processing"


\* C35: two invocations of the queue processor that overlap never dispatch the
\* same queue entry: while one is dispatching an entry, the other is not
\* dispatching that entry.
C35_NoSharedDispatch ==
    (dpc = "dispatch" /\ drain2.pc = "dispatch") => Cur.id # Cur2.id


\* C36: after enqueueSync has returned for a record whose queue entry has used
\* up its retries (status failed, retry count 5), the queue holds an entry for
\* that record which the next run of the processor selects.
C36_ExhaustedRequeued ==
    [][\A q \in QueueIds :
          (/\ queue[q].status = "failed"
           /\ queue[q].retry = MAX_RETRIES
           /\ lastAct'.op = "enqueueSync"
           /\ lastAct'.rtype = queue[q].rtype
           /\ lastAct'.rid = queue[q].rid
           /\ queue' # queue)
          => \E p \in DOMAIN queue' :
                /\ queue'[p].rtype = queue[q].rtype
                /\ queue'[p].rid = queue[q].rid
                /\ queue'[p].status \in {"pending", "failed"}
                /\ queue'[p].retry < MAX_RETRIES]_vars


\* C37: a request makes at most 4 HTTP calls in one pass and at most 8 with
\* the one re-issue after a 401, whatever the sequence of 429, 401, error and
\* success responses; the retry loop is never left by its condition, and a
\* finished request has a result, TokenExpired, RateLimited or ApiError.
C37_BoundedCalls ==
    /\ attempt <= MaxRetries429
    /\ hist.reissues <= 1
    /\ hist.calls <= (IF hist.reissues = 0 THEN 0 ELSE MaxRetries429 + 1)
                     + attempt + (IF rpc = "done" THEN 1 ELSE 0)
    /\ hist.calls <= 2 * (MaxRetries429 + 1)
    /\ MaxRetries429 + 1 = 4
    /\ rpc = "done" => outcome.kind \in {"ok", "TokenExpired", "RateLimited", "ApiError"}

\* C37 witness: a request that made 8 HTTP calls, 429 three times and 401 in
\* the first pass, 429 four times after the re-issue, and ended RateLimited
C37_Witness ==
    /\ rpc = "done"
    /\ hist.calls = 8
    /\ hist.reissues = 1
    /\ attempt = MaxRetries429
    /\ outcome.kind = "RateLimited"


\* C38: after a successful token refresh the stored access token and the
\* stored access-token expiry belong to the same token: the expiry of the
\* previous token is never left next to the new token.
C38_ExpiryOfStoredToken ==
    (rtok.kind = "refreshed" /\ rtok.rec.access # rtok.prev.access)
    => rtok.rec.accessExp # rtok.prev.accessExp


\* C39: whatever steps of its synchronizations fail (the delete before a
\* recreate, the create, the write-back of the new identifier), at most one
\* remote object created for a local invoice or credit note exists at a time.
C39_OneRemoteObject ==
    Cardinality(LiveObjects) <= 1

=============================================================================
